---- MODULE Spec2Model ----
(***************************************************************************)
(* A model of the telegram-types decoding core:                            *)
(*   - TelegramResult<T>::into_result (src/src/bot/methods.rs), the        *)
(*     projection of the response envelope onto Result<T, ApiError>;       *)
(*   - the derived decoder of Update / UpdateContent                       *)
(*     (src/src/bot/types.rs), a struct with a flattened                   *)
(*     Option<UpdateContent> decoded from a flat JSON object;              *)
(*   - the encoders and decoders of the other types, the identifier        *)
(*     arithmetic and the long-polling loop of examples/echo.rs;           *)
(*   - the method table and the decoding of a response body                *)
(*     (src/src/bot/methods.rs, src/src/bot/mod.rs);                       *)
(*   - PollingUpdater (src/src/bot/high.rs).                               *)
(* An Option<T> is a sequence of length at most one: None is <<>> and      *)
(* Some(x) is <<x>>.                                                       *)
(***************************************************************************)
EXTENDS Integers, Sequences, FiniteSets, TLC

VARIABLES envelope, outcome, wire, update, ty, value, json, decoded,
          lhs, rhs, op, overflow_checks, out,
          pc, get_update, updates, index, request, seen, requests,
          method, token, body, built, parsed,
          param, thread_param, thread_pc, main_pc, control, response,
          self_updates, in_flight, yielded, received, dropped, issued

vars == <<envelope, outcome, wire, update, ty, value, json, decoded,
          lhs, rhs, op, overflow_checks, out,
          pc, get_update, updates, index, request, seen, requests,
          method, token, body, built, parsed,
          param, thread_param, thread_pc, main_pc, control, response,
          self_updates, in_flight, yielded, received, dropped, issued>>

\* The variables of the response envelope, of the Update decoder and of the
\* encoders and decoders of the other types.
resultVars == <<envelope, outcome>>

updateVars == <<wire, update>>

codecVars == <<ty, value, json, decoded>>

\* The variables of the identifier arithmetic and of the long-polling loop.
idVars == <<lhs, rhs, op, overflow_checks, out>>

echoVars == <<pc, get_update, updates, index, request, seen, requests>>

\* The variables of the method table and of the PollingUpdater.
methodVars == <<method, token, body, built, parsed>>

pollVars == <<param, thread_param, thread_pc, main_pc, control, response,
              self_updates, in_flight, yielded, received, dropped, issued>>

None == <<>>

Some(x) == <<x>>

is_none(o) == o = <<>>

is_some(o) == o # <<>>

unwrap(o) == o[1]

\* Option::unwrap_or(d)
unwrap_or(o, d) == IF o = <<>> THEN d ELSE o[1]

\* Option::<String>::unwrap_or_default(): the default String is empty.
unwrap_or_default_String(o) == unwrap_or(o, "")

\* No envelope is being converted.
IdleResult ==
    /\ envelope = [ok |-> TRUE, description |-> <<>>, error_code |-> <<>>,
                   result |-> <<>>, parameters |-> <<>>]
    /\ outcome = <<>>

\* No update object is being decoded.
IdleUpdate ==
    /\ wire = <<>>
    /\ update = <<>>

\* No value is being encoded or decoded.
IdleCodec ==
    /\ ty = ""
    /\ value = <<>>
    /\ json = <<>>
    /\ decoded = <<>>

\* No identifier arithmetic is under way.
IdleId ==
    /\ lhs = <<>>
    /\ rhs = 0
    /\ op = ""
    /\ overflow_checks = FALSE
    /\ out = <<>>

\* The long-polling loop is not running.
IdleEcho ==
    /\ pc = ""
    /\ get_update = <<>>
    /\ updates = <<>>
    /\ index = 0
    /\ request = <<>>
    /\ seen = FALSE
    /\ requests = 0

\* No method is being called.
IdleMethod ==
    /\ method = ""
    /\ token = ""
    /\ body = <<>>
    /\ built = <<>>
    /\ parsed = <<>>

\* No PollingUpdater has been made.
IdlePoll ==
    /\ param = <<>>
    /\ thread_param = <<>>
    /\ thread_pc = ""
    /\ main_pc = ""
    /\ control = <<>>
    /\ response = <<>>
    /\ self_updates = <<>>
    /\ in_flight = <<>>
    /\ yielded = <<>>
    /\ received = <<>>
    /\ dropped = FALSE
    /\ issued = <<>>

(***************************************************************************)
(* The response envelope and its projection.                               *)
(***************************************************************************)

\* The description into_result writes for ok: true without a result (the
\* source's backquotes around ok: true and result are left out).
MissingResultDescription == "In the response from telegram ok: true, but not found result field."

\* The description into_result writes for ok: false without an error_code.
MissingErrCodeDescription == "In the response from telegram ok: false, but not found err_code field."

\* Descriptions a response carries.
Descriptions == {"", "Unauthorized"}

\* Error codes a response carries (i32); 0 is a value the wire can hold.
ErrorCodes == {0, 401, 429}

\* How many distinct payloads of type T the responses carry.
MaxPayload == 2

\* Payloads of type T.
Payloads == 1..MaxPayload

\* types::ResponseParameters: two optional hints.
ResponseParameters == {[migrate_to_chat_id |-> None, retry_after |-> Some(5)],
                       [migrate_to_chat_id |-> Some(7), retry_after |-> None]}

Option(S) == {None} \cup {Some(x) : x \in S}

\* struct TelegramResult<T>
TelegramResult == [ok : BOOLEAN,
                   description : Option(Descriptions),
                   error_code : Option(ErrorCodes),
                   result : Option(Payloads),
                   parameters : Option(ResponseParameters)]

\* struct ApiError
ApiError(code, desc, params) == [error_code |-> code, description |-> desc, parameters |-> params]

Ok(r) == [tag |-> "Ok", value |-> r]

Err(e) == [tag |-> "Err", error |-> e]

is_ok(r) == r.tag = "Ok"

is_err(r) == r.tag = "Err"

\* Option::ok_or(err)
ok_or(o, e) == IF o = <<>> THEN Err(e) ELSE Ok(o[1])

\* into_result changed to trust the result field without looking at ok.
into_result_ok_unchecked(self) ==
    IF is_some(self.result)
    THEN Ok(unwrap(self.result))
    ELSE Err(ApiError(unwrap_or(self.error_code, 0),
                      unwrap_or_default_String(self.description), self.parameters))

\* into_result changed to drop the parameters of a failure.
into_result_drops_parameters(self) ==
    IF self.ok
    THEN ok_or(self.result, ApiError(0, MissingResultDescription, None))
    ELSE Err(ApiError(unwrap_or(self.error_code, 0),
                      IF is_none(self.error_code) THEN MissingErrCodeDescription
                      ELSE unwrap_or_default_String(self.description),
                      None))

\* into_result changed to carry the envelope's parameters and description into
\* the error it makes for a success without a result.
into_result_keeps_fields(self) ==
    IF self.ok
    THEN ok_or(self.result,
               ApiError(0, unwrap_or(self.description, MissingResultDescription),
                        self.parameters))
    ELSE Err(ApiError(unwrap_or(self.error_code, 0),
                      IF is_none(self.error_code) THEN MissingErrCodeDescription
                      ELSE unwrap_or_default_String(self.description),
                      self.parameters))

\* into_result changed to always pass the envelope's description on.
into_result_keeps_description(self) ==
    IF self.ok
    THEN ok_or(self.result, ApiError(0, MissingResultDescription, None))
    ELSE Err(ApiError(unwrap_or(self.error_code, 0),
                      unwrap_or_default_String(self.description),
                      self.parameters))

\* into_result changed to report every failure with code 0.
into_result_zero_code(self) ==
    IF self.ok
    THEN ok_or(self.result, ApiError(0, MissingResultDescription, None))
    ELSE Err(ApiError(0,
                      IF is_none(self.error_code) THEN MissingErrCodeDescription
                      ELSE unwrap_or_default_String(self.description),
                      self.parameters))

\* TelegramResult::into_result
into_result(self) ==
    IF self.ok
    THEN LET api_error == ApiError(0, MissingResultDescription, None)
         IN  ok_or(self.result, api_error)
    ELSE LET description == IF is_none(self.error_code)
                            THEN MissingErrCodeDescription
                            ELSE unwrap_or_default_String(self.description)
         IN  Err(ApiError(unwrap_or(self.error_code, 0), description, self.parameters))

\* A response has been decoded into an envelope; it is not yet converted.
InitResult ==
    /\ envelope \in TelegramResult
    /\ outcome = None
    /\ IdleUpdate
    /\ IdleCodec
    /\ IdleId
    /\ IdleEcho
    /\ IdleMethod
    /\ IdlePoll

\* The caller converts the envelope: envelope.into_result() (or .into()).
IntoResult ==
    /\ outcome = None
    /\ outcome' = Some(into_result(envelope))
    /\ UNCHANGED <<envelope, updateVars, codecVars, idVars, echoVars,
                   methodVars, pollVars>>

NextResult == IntoResult

SpecResult == InitResult /\ [][NextResult]_vars

(***************************************************************************)
(* The Update decoder.  The wire form of an update is a flat JSON object,  *)
(* here the sequence of its fields in the order they are written.  A JSON  *)
(* value is one of: an integer n; a string; null; the empty object {}      *)
(* (JObj(0)); or, for k >= 1, an object that holds every field the payload *)
(* types require and stands for payload k (JObj(k)).                       *)
(***************************************************************************)

JInt(n) == [t |-> "int", v |-> n]

JStr == [t |-> "str", v |-> 0]

JNull == [t |-> "null", v |-> 0]

JObj(k) == [t |-> "obj", v |-> k]

\* The longest update object, in fields.
MaxFields == 3

\* The largest update identifier on the wire.
MaxUpdateId == 2

\* How many distinct well-formed payload objects the update objects carry.
MaxMessage == 1

\* enum UpdateContent with rename_all = "snake_case": the wire name of each
\* variant, in declaration order.
UpdateContentVariants ==
    <<"message", "edited_message", "channel_post", "edited_channel_post",
      "inline_query", "chosen_inline_result", "callback_query",
      "shipping_query", "pre_checkout_query", "poll", "poll_answer",
      "my_chat_member", "chat_member", "unknown">>

VariantNames == {UpdateContentVariants[i] : i \in DOMAIN UpdateContentVariants}

\* The variants whose payload is Message, InlineQuery, ChosenInlineResult or
\* CallbackQuery: structs with required fields.
StructVariants ==
    {"message", "edited_message", "channel_post", "edited_channel_post",
     "inline_query", "chosen_inline_result", "callback_query"}

\* The variants whose payload is one of the placeholder structs without
\* fields: ShippingQuery, PreCheckoutQuery, Poll, PollAnswer, ChatMemberUpdated.
PlaceholderVariants ==
    {"shipping_query", "pre_checkout_query", "poll", "poll_answer",
     "my_chat_member", "chat_member"}

\* VariantOf with the two chat-member variants exchanged.
VariantOf_swapped(k) ==
    CASE k = "message" -> "Message"
      [] k = "edited_message" -> "EditedMessage"
      [] k = "channel_post" -> "ChannelPost"
      [] k = "edited_channel_post" -> "EditedChannelPost"
      [] k = "inline_query" -> "InlineQuery"
      [] k = "chosen_inline_result" -> "ChosenInlineResult"
      [] k = "callback_query" -> "CallbackQuery"
      [] k = "shipping_query" -> "ShippingQuery"
      [] k = "pre_checkout_query" -> "PreCheckoutQuery"
      [] k = "poll" -> "Poll"
      [] k = "poll_answer" -> "PollAnswer"
      [] k = "my_chat_member" -> "ChatMember"
      [] k = "chat_member" -> "MyChatMember"
      [] k = "unknown" -> "Unknown"

\* The Rust name of the variant with wire name k.
VariantOf(k) ==
    CASE k = "message" -> "Message"
      [] k = "edited_message" -> "EditedMessage"
      [] k = "channel_post" -> "ChannelPost"
      [] k = "edited_channel_post" -> "EditedChannelPost"
      [] k = "inline_query" -> "InlineQuery"
      [] k = "chosen_inline_result" -> "ChosenInlineResult"
      [] k = "callback_query" -> "CallbackQuery"
      [] k = "shipping_query" -> "ShippingQuery"
      [] k = "pre_checkout_query" -> "PreCheckoutQuery"
      [] k = "poll" -> "Poll"
      [] k = "poll_answer" -> "PollAnswer"
      [] k = "my_chat_member" -> "MyChatMember"
      [] k = "chat_member" -> "ChatMember"
      [] k = "unknown" -> "Unknown"

\* A value of enum UpdateContent: the variant and the payload it holds (0 for
\* a placeholder struct and for the unit variant Unknown).
UpdateContent(variant, payload) == [variant |-> variant, payload |-> payload]

\* impl Default for UpdateContent
UpdateContent_default == UpdateContent("Unknown", 0)

\* update.content.unwrap_or_default(), as the examples read the content.
unwrap_or_default(o) == IF o = <<>> THEN UpdateContent_default ELSE o[1]

\* The fields an update object is built from.
Fields ==
    {[key |-> "update_id", val |-> JInt(n)] : n \in 1..MaxUpdateId}
    \cup {[key |-> "update_id", val |-> JStr]}
    \cup {[key |-> k, val |-> JObj(n)] : k \in StructVariants, n \in 0..MaxMessage}
    \cup {[key |-> k, val |-> v] : k \in PlaceholderVariants, v \in {JObj(0), JStr}}
    \cup {[key |-> "unknown", val |-> v] : v \in {JNull, JStr}}
    \cup {[key |-> "chat_join_request", val |-> JObj(1)],
          [key |-> "foo", val |-> JStr]}

\* The payload of the variant with wire name k decoded from value v: a struct
\* with required fields needs an object that has them, a placeholder struct
\* any object, the unit variant null.
decode_payload(k, v) ==
    IF k \in StructVariants
    THEN IF v.t = "obj" /\ v.v >= 1
         THEN Ok(UpdateContent(VariantOf(k), v.v))
         ELSE Err("missing field")
    ELSE IF k \in PlaceholderVariants
    THEN IF v.t = "obj"
         THEN Ok(UpdateContent(VariantOf(k), 0))
         ELSE Err("invalid type")
    ELSE IF v.t = "null"
         THEN Ok(UpdateContent(VariantOf(k), 0))
         ELSE Err("invalid type")

\* Deserialize for UpdateContent out of the flattened fields: the first
\* collected entry whose key names a variant selects the variant, and its
\* value is decoded as that variant's payload.
RECURSIVE deserialize_enum(_, _)
deserialize_enum(collect, i) ==
    IF i > Len(collect)
    THEN Err("no variant of enum UpdateContent found in flattened data")
    ELSE IF collect[i].key \in VariantNames
         THEN decode_payload(collect[i].key, collect[i].val)
         ELSE deserialize_enum(collect, i + 1)

\* deserialize_option changed to fall back to the Unknown variant.
deserialize_option_unknown(collect) ==
    LET r == deserialize_enum(collect, 1)
    IN  IF r.tag = "Ok" THEN Some(r.value) ELSE Some(UpdateContent("Unknown", 0))

\* Deserialize for Option<UpdateContent> out of the flattened fields: an
\* error of the inner decoder becomes None.
deserialize_option(collect) ==
    LET r == deserialize_enum(collect, 1)
    IN  IF r.tag = "Ok" THEN Some(r.value) ELSE None

\* struct Update
Update(id, content) == [update_id |-> id, content |-> content]

\* The derived visit_map of Update: update_id is taken by name where it
\* stands, every other field is collected in wire order for the flattened
\* content, and the content is decoded once the object has been read.
RECURSIVE visit_map(_, _, _, _)
visit_map(w, i, id, collect) ==
    IF i > Len(w)
    THEN IF is_none(id)
         THEN Err("missing field update_id")
         ELSE Ok(Update(unwrap(id), deserialize_option(collect)))
    ELSE IF w[i].key = "update_id"
         THEN IF is_some(id)
              THEN Err("duplicate field update_id")
              ELSE IF w[i].val.t = "int"
                   THEN visit_map(w, i + 1, Some(w[i].val.v), collect)
                   ELSE Err("invalid type")
         ELSE visit_map(w, i + 1, id, Append(collect, w[i]))

\* from_str_Update changed to expect update_id as the object's first field.
from_str_Update_id_first(w) ==
    IF Len(w) >= 1 /\ w[1].key = "update_id"
    THEN visit_map(w, 1, None, <<>>)
    ELSE Err("missing field update_id")

\* serde_json::from_str::<Update>
from_str_Update(w) == visit_map(w, 1, None, <<>>)

\* An update object has arrived, any sequence of at most MaxFields fields; it
\* is not yet decoded.
InitUpdate ==
    /\ \E n \in 0..MaxFields : wire \in [1..n -> Fields]
    /\ update = None
    /\ IdleResult
    /\ IdleCodec
    /\ IdleId
    /\ IdleEcho
    /\ IdleMethod
    /\ IdlePoll

\* The update object is decoded.
DecodeUpdate ==
    /\ update = None
    /\ update' = Some(from_str_Update(wire))
    /\ UNCHANGED <<wire, resultVars, codecVars, idVars, echoVars,
                   methodVars, pollVars>>

NextUpdate == DecodeUpdate

SpecUpdate == InitUpdate /\ [][NextUpdate]_vars

(***************************************************************************)
(* The encoders and decoders of the other types.  A JSON value is a record *)
(* [t, v]: t names its JSON type and v holds it.  A JSON object is a       *)
(* function from its keys to their values: none of the decoders below      *)
(* depends on the order of an object's fields.                             *)
(***************************************************************************)

JString(s) == [t |-> "string", v |-> s]

\* An integer number.
JNumber(n) == [t |-> "number", v |-> n]

\* A number with a fraction.
JFloat == [t |-> "float", v |-> 0]

\* An f32 as JSON.
JF32(x) == [t |-> "float", v |-> x]

JBool(b) == [t |-> "bool", v |-> b]

JNullValue == [t |-> "null", v |-> 0]

JArray(a) == [t |-> "array", v |-> a]

JObject(o) == [t |-> "object", v |-> o]

\* The empty object {}.
EmptyObject == JObject(<<>>)

\* The error of an untagged enum none of whose variants matched.
NoVariantMatched(name) == Err("data did not match any variant of untagged enum " \o name)

\* The largest chat identifier of the model; identifiers are -MaxChatId..MaxChatId.
MaxChatId == 2

\* ChatId(i64) values.
ChatIds == (0 - MaxChatId)..MaxChatId

\* The strings the model writes: names, and the decimal digits of every
\* chat identifier.
Strings == {"@durov", "42", "cocona.webp", "https://example.com/a.png"}
           \cup {ToString(n) : n \in ChatIds}

\* i64 out of a buffered JSON value, accepting the digits of a string as well.
deserialize_i64_lenient(j) ==
    IF j.t = "number" THEN Ok(j.v)
    ELSE IF j.t = "string" /\ \E n \in ChatIds : ToString(n) = j.v
         THEN Ok(CHOOSE n \in ChatIds : ToString(n) = j.v)
         ELSE Err("invalid type")

\* i64 out of a buffered JSON value: an integer number and nothing else.
deserialize_i64(j) ==
    IF j.t = "number" THEN Ok(j.v) ELSE Err("invalid type")

\* String (Cow<str>) out of a buffered JSON value.
deserialize_String(j) ==
    IF j.t = "string" THEN Ok(j.v) ELSE Err("invalid type")

\* enum ChatTarget: ChatTarget::Id(ChatId(n)) and ChatTarget::Username(s).
ChatTarget_Id(n) == [tag |-> "Id", v |-> n]

ChatTarget_Username(s) == [tag |-> "Username", v |-> s]

ChatTargets == {ChatTarget_Id(n) : n \in ChatIds} \cup {ChatTarget_Username(s) : s \in Strings}

\* Serialize for ChatTarget (untagged): the inner value's own form.
serialize_ChatTarget(x) ==
    IF x.tag = "Id" THEN JNumber(x.v) ELSE JString(x.v)

\* Deserialize for ChatTarget changed to fall back to ChatId(0) when no variant
\* matches.
deserialize_ChatTarget_or_zero(j) ==
    IF is_ok(deserialize_i64(j)) THEN Ok(ChatTarget_Id(deserialize_i64(j).value))
    ELSE IF is_ok(deserialize_String(j)) THEN Ok(ChatTarget_Username(deserialize_String(j).value))
    ELSE Ok(ChatTarget_Id(0))

\* Deserialize for ChatTarget (untagged): Id is tried first, then Username.
deserialize_ChatTarget(j) ==
    IF is_ok(deserialize_i64(j)) THEN Ok(ChatTarget_Id(deserialize_i64(j).value))
    ELSE IF is_ok(deserialize_String(j)) THEN Ok(ChatTarget_Username(deserialize_String(j).value))
    ELSE NoVariantMatched("ChatTarget")

\* InputFile::new changed to keep the bare name.
InputFile_new_bare(file_attach_name) == file_attach_name

\* InputFile::new: the InputFile's string.
InputFile_new(file_attach_name) == "attach://" \o file_attach_name

\* enum FileToSend: FileId(FileId(s)), Url(s), InputFile(InputFile(s)).
FileToSend_FileId(s) == [tag |-> "FileId", v |-> s]

FileToSend_Url(s) == [tag |-> "Url", v |-> s]

FileToSend_InputFile(s) == [tag |-> "InputFile", v |-> s]

\* The names files are attached under.
AttachNames == {"cocona.webp", "42"}

FileToSends ==
    {FileToSend_FileId(s) : s \in Strings}
    \cup {FileToSend_Url(s) : s \in Strings}
    \cup {FileToSend_InputFile(InputFile_new(n)) : n \in AttachNames}

\* Serialize for FileToSend written with the variant's name as a tag.
serialize_FileToSend_tagged(x) == JObject(<<[key |-> x.tag, val |-> JString(x.v)]>>)

\* Serialize for FileToSend (untagged): FileId, String and InputFile all
\* write their string.
serialize_FileToSend(x) == JString(x.v)

\* Deserialize for FileToSend (untagged): FileId is tried first, then Url,
\* then InputFile; each is a string.
deserialize_FileToSend(j) ==
    IF is_ok(deserialize_String(j)) THEN Ok(FileToSend_FileId(deserialize_String(j).value))
    ELSE IF is_ok(deserialize_String(j)) THEN Ok(FileToSend_Url(deserialize_String(j).value))
    ELSE IF is_ok(deserialize_String(j)) THEN Ok(FileToSend_InputFile(deserialize_String(j).value))
    ELSE NoVariantMatched("FileToSend")

\* One entry of a JSON object, in the order of the text.
Entry(k, j) == [key |-> k, val |-> j]

\* The positions of key k in the entries o of a JSON object.
Positions(o, k) == {i \in DOMAIN o : o[i].key = k}

\* The value of key k, present once in the entries o.
ValueAt(o, k) == o[CHOOSE i \in Positions(o, k) : TRUE].val

\* JSON values of every type, as inputs of the scalar decoders.
ScalarInputs ==
    {JNumber(n) : n \in ChatIds} \cup {JString(s) : s \in Strings}
    \cup {JFloat, JNullValue, JBool(TRUE), JBool(FALSE), EmptyObject,
          JArray(<<JNumber(1)>>), JArray(<<JString("42")>>),
          JObject(<<Entry("id", JNumber(1))>>)}

\* ---- enums of unit variants, written as a string ----

\* The variants of each enum that is decoded from a name, with the name each
\* has on the wire: rename_all = "snake_case" for MessageEntityKind and
\* InlineKeyboardButtonPressed, "lowercase" for ChatMemberStatus, the Rust
\* name for ParseMode, rename_all = "snake_case" for ChatType and a rename
\* per variant for InputMedia.
WireNames(enum) ==
    CASE enum = "MessageEntityKind" ->
           [Mention |-> "mention", Hashtag |-> "hashtag", Cashtag |-> "cashtag",
            BotCommand |-> "bot_command", Url |-> "url", Email |-> "email",
            PhoneNumber |-> "phone_number", Bold |-> "bold", Italic |-> "italic",
            Code |-> "code", Pre |-> "pre", TextLink |-> "text_link",
            TextMention |-> "text_mention", Unknown |-> "unknown"]
      [] enum = "ChatMemberStatus" ->
           [Creator |-> "creator", Administrator |-> "administrator",
            Member |-> "member", Restricted |-> "restricted", Left |-> "left",
            Kicked |-> "kicked", Unknown |-> "unknown"]
      [] enum = "ParseMode" ->
           [Markdown |-> "Markdown", MarkdownV2 |-> "MarkdownV2", HTML |-> "HTML",
            Unknown |-> "Unknown"]
      [] enum = "ChatType" ->
           [Private |-> "private", Group |-> "group", Supergroup |-> "supergroup",
            Channel |-> "channel", Unknown |-> "unknown"]
      [] enum = "InputMedia" ->
           [Video |-> "video", Photo |-> "photo", Animation |-> "animation",
            Audio |-> "audio", Document |-> "document", Unknown |-> "Unknown"]
      [] enum = "InlineKeyboardButtonPressed" ->
           [Url |-> "url", CallbackData |-> "callback_data",
            SwitchInlineQuery |-> "switch_inline_query",
            SwitchInlineQueryCurrentChat |-> "switch_inline_query_current_chat",
            Pay |-> "pay", CallbackGame |-> "callback_game",
            LoginUrl |-> "login_url", Unknown |-> "unknown"]

\* The names on the wire that select a variant of the enum.
KnownNames(enum) == {WireNames(enum)[v] : v \in DOMAIN WireNames(enum)}

\* The variant identifier without #[serde(other)]: an unlisted name is an
\* error.
deserialize_identifier_strict(enum, name) ==
    IF name \in KnownNames(enum)
    THEN Ok(CHOOSE v \in DOMAIN WireNames(enum) : WireNames(enum)[v] = name)
    ELSE Err("unknown variant " \o name)

\* The variant identifier of an enum that has #[serde(other)] Unknown: the
\* variant a name selects, Unknown for every name that is not listed.
deserialize_identifier(enum, name) ==
    IF name \in KnownNames(enum)
    THEN Ok(CHOOSE v \in DOMAIN WireNames(enum) : WireNames(enum)[v] = name)
    ELSE Ok("Unknown")

\* A value of an enum of unit variants.
Unit(variant) == [tag |-> variant]

UnitEnums == {"MessageEntityKind", "ChatMemberStatus", "ParseMode"}

\* Serialize for an enum of unit variants: the variant's name as a string.
serialize_unit_enum(enum, x) == JString(WireNames(enum)[x.tag])

\* Deserialize for an enum of unit variants (externally tagged): a string
\* names the variant; an object of one entry names it by its key and must
\* hold null for a unit variant; anything else is not an enum.
deserialize_unit_enum(enum, j) ==
    IF j.t = "string"
    THEN LET id == deserialize_identifier(enum, j.v)
         IN  IF is_ok(id) THEN Ok(Unit(id.value)) ELSE id
    ELSE IF j.t = "object" /\ Len(j.v) = 1
    THEN LET id == deserialize_identifier(enum, j.v[1].key)
         IN  IF is_err(id) THEN id
             ELSE IF j.v[1].val.t = "null" THEN Ok(Unit(id.value))
             ELSE Err("invalid type")
    ELSE Err("invalid type")

\* ---- structs and struct variants ----

\* A field of a struct: its name, the type of its value, and how the derive
\* treats it: "required", "option" (Option<T>, written as null when None),
\* "option_skip" (Option<T> with skip_serializing_if = "Option::is_none") or
\* "default" (#[serde(default)]).
Field(name, type, rule) == [name |-> name, type |-> type, rule |-> rule]

\* The fields of each struct and struct variant, in declaration order.
FieldsOf(struct) ==
    CASE struct = "ChatType::Private" ->
           <<Field("username", "String", "option"),
             Field("first_name", "String", "required"),
             Field("last_name", "String", "option")>>
      [] struct = "ChatType::Group" ->
           <<Field("title", "String", "required"),
             Field("username", "String", "option"),
             Field("all_members_are_administrators", "bool", "default")>>
      [] struct = "ChatType::Supergroup" ->
           <<Field("title", "String", "required"),
             Field("username", "String", "option"),
             Field("all_members_are_administrators", "bool", "default"),
             Field("pinned_message", "Message", "option"),
             Field("sticker_set_name", "String", "option"),
             Field("can_set_sticker_set", "bool", "option"),
             Field("invite_link", "String", "option"),
             Field("description", "String", "option")>>
      [] struct = "ChatType::Channel" ->
           <<Field("title", "String", "required"),
             Field("username", "String", "option"),
             Field("pinned_message", "Message", "option"),
             Field("invite_link", "String", "option"),
             Field("description", "String", "option")>>
      [] struct = "InputMedia::Video" ->
           <<Field("media", "FileToSend", "required"),
             Field("caption", "String", "option_skip"),
             Field("parse_mode", "ParseMode", "option_skip"),
             Field("width", "i32", "option_skip"),
             Field("height", "i32", "option_skip"),
             Field("duration", "i32", "option_skip"),
             Field("supports_streaming", "bool", "option_skip")>>
      [] struct = "InputMedia::Photo" ->
           <<Field("media", "FileToSend", "required"),
             Field("caption", "String", "option_skip"),
             Field("parse_mode", "ParseMode", "option_skip")>>
      [] struct = "InputMedia::Animation" ->
           <<Field("media", "FileToSend", "required"),
             Field("thumb", "InputFile", "option_skip"),
             Field("caption", "String", "option_skip"),
             Field("parse_mode", "ParseMode", "option_skip"),
             Field("width", "i32", "option_skip"),
             Field("height", "i32", "option_skip"),
             Field("duration", "i32", "option_skip")>>
      [] struct = "InputMedia::Audio" ->
           <<Field("media", "FileToSend", "required"),
             Field("thumb", "InputFile", "option_skip"),
             Field("caption", "String", "option_skip"),
             Field("parse_mode", "ParseMode", "option_skip"),
             Field("duration", "i32", "option_skip"),
             Field("performer", "String", "option_skip"),
             Field("title", "String", "option_skip")>>
      [] struct = "InputMedia::Document" ->
           <<Field("media", "FileToSend", "required"),
             Field("thumb", "InputFile", "option_skip"),
             Field("caption", "String", "option_skip"),
             Field("parse_mode", "ParseMode", "option_skip")>>
      [] struct \in {"ChatType::Unknown", "InputMedia::Unknown"} -> <<>>
      [] struct = "LoginUrl" ->
           <<Field("url", "String", "required"),
             Field("forward_text", "String", "option"),
             Field("bot_username", "String", "option"),
             Field("request_write_access", "bool", "option")>>
      [] struct = "KeyboardButton" ->
           <<Field("text", "String", "required"),
             Field("request_contact", "bool", "option"),
             Field("request_location", "bool", "option")>>
      [] struct = "ChatPhoto" ->
           <<Field("small_file_id", "String", "required"),
             Field("big_file_id", "String", "required")>>
      [] struct = "InlineKeyboardMarkup" ->
           <<Field("inline_keyboard", "Vec<Vec<InlineKeyboardButton>>", "default")>>
      [] struct = "ReplyKeyboardMarkup" ->
           <<Field("keyboard", "Vec<Vec<KeyboardButton>>", "default"),
             Field("resize_keyboard", "bool", "option"),
             Field("one_time_keyboard", "bool", "option"),
             Field("selective", "bool", "option")>>
      [] struct = "ReplyKeyboardRemove" ->
           <<Field("remove_keyboard", "bool", "required"),
             Field("selective", "bool", "option")>>
      [] struct = "ForceReply" ->
           <<Field("force_reply", "bool", "required"),
             Field("selective", "bool", "option")>>
      [] struct = "InputTextMessageContent" ->
           <<Field("message_text", "String", "required"),
             Field("parse_mode", "ParseMode", "option_skip"),
             Field("disable_web_page_preview", "bool", "option_skip")>>
      [] struct = "InputLocationMessageContent" ->
           <<Field("latitude", "f32", "required"),
             Field("longitude", "f32", "required"),
             Field("live_period", "i32", "option_skip")>>
      [] struct = "InputVenueMessageContent" ->
           <<Field("latitude", "f32", "required"),
             Field("longitude", "f32", "required"),
             Field("title", "String", "required"),
             Field("address", "String", "required"),
             Field("foursquare_id", "String", "option_skip"),
             Field("foursquare_type", "String", "option_skip")>>
      [] struct = "InputContactMessageContent" ->
           <<Field("phone_number", "String", "required"),
             Field("first_name", "String", "required"),
             Field("last_name", "String", "option_skip"),
             Field("vcard", "String", "option_skip")>>

\* The value a #[serde(default)] field gets when the object lacks it:
\* falsum() for the bool, the empty Vec for a keyboard.
DefaultOf(type) == IF type = "bool" THEN FALSE ELSE <<>>

\* The type of the value each variant of InlineKeyboardButtonPressed holds;
\* Unknown holds none. CallbackGame is a struct of the module games.
PayloadOf(variant) ==
    CASE variant \in {"Url", "CallbackData", "SwitchInlineQuery",
                      "SwitchInlineQueryCurrentChat"} -> "String"
      [] variant = "Pay" -> "bool"
      [] variant = "CallbackGame" -> "CallbackGame"
      [] variant = "LoginUrl" -> "LoginUrl"

\* InlineKeyboardButtonPressed, a variant with its value.
Pressed(variant, x) == [tag |-> variant, v |-> x]

\* struct InlineKeyboardButton
InlineKeyboardButton(text, pressed) == [text |-> text, pressed |-> pressed]

\* The flattened enum that misses its variant.
NoVariantFound ==
    Err("no variant of enum InlineKeyboardButtonPressed found in flattened data")

\* Serialize of a value of a type that holds no struct of the model.
serialize_scalar(type, x) ==
    CASE type \in {"String", "InputFile"} -> JString(x)
      [] type = "i32" -> JNumber(x)
      [] type = "f32" -> JF32(x)
      [] type = "bool" -> JBool(x)
      [] type = "FileToSend" -> serialize_FileToSend(x)
      [] type \in UnitEnums -> serialize_unit_enum(type, x)
      [] type \in {"Message", "CallbackGame"} -> JObject(x)

\* The fields of a struct that are written for the value x: all but those
\* that skip_serializing_if leaves out.
Written(struct, x) ==
    SelectSeq(FieldsOf(struct), LAMBDA f : ~(f.rule = "option_skip" /\ x[f.name] = None))

\* The entry a field of a scalar type is written as, an Option as null or as
\* its value.
serialize_flat_field(f, x) ==
    Entry(f.name,
          IF f.rule \in {"option", "option_skip"}
          THEN IF x = None THEN JNullValue ELSE serialize_scalar(f.type, unwrap(x))
          ELSE serialize_scalar(f.type, x))

\* Derived Serialize of a struct whose fields are of scalar types: an entry
\* per written field, in declaration order.
serialize_flat_struct(struct, x) ==
    [i \in 1..Len(Written(struct, x)) |->
        serialize_flat_field(Written(struct, x)[i], x[Written(struct, x)[i].name])]

\* Serialize of what a variant of InlineKeyboardButtonPressed holds.
serialize_payload(type, x) ==
    IF type = "LoginUrl"
    THEN JObject(serialize_flat_struct(type, x))
    ELSE serialize_scalar(type, x)

\* Derived Serialize of InlineKeyboardButton with a pressed that holds a
\* value: text, then the flattened enum as one entry named by the variant.
serialize_InlineKeyboardButton(b) ==
    JObject(<<Entry("text", JString(b.text)),
              Entry(WireNames("InlineKeyboardButtonPressed")[b.pressed.tag],
                    serialize_payload(PayloadOf(b.pressed.tag), b.pressed.v))>>)

\* Serialize of a value by its type.
serialize_as(type, x) ==
    CASE type = "Vec<Vec<InlineKeyboardButton>>" ->
           JArray([r \in DOMAIN x |->
                     JArray([c \in DOMAIN x[r] |-> serialize_InlineKeyboardButton(x[r][c])])])
      [] type = "Vec<Vec<KeyboardButton>>" ->
           JArray([r \in DOMAIN x |->
                     JArray([c \in DOMAIN x[r] |->
                               JObject(serialize_flat_struct("KeyboardButton", x[r][c]))])])
      [] OTHER -> serialize_scalar(type, x)

\* The entry a field is written as, an Option as null or as its value.
serialize_field(f, x) ==
    Entry(f.name,
          IF f.rule \in {"option", "option_skip"}
          THEN IF x = None THEN JNullValue ELSE serialize_as(f.type, unwrap(x))
          ELSE serialize_as(f.type, x))

\* Derived Serialize of a struct: an entry per written field, in declaration
\* order.
serialize_struct(struct, x) ==
    [i \in 1..Len(Written(struct, x)) |->
        serialize_field(Written(struct, x)[i], x[Written(struct, x)[i].name])]

\* Deserialize of a value of a type that holds no struct of the model. A
\* Message and a CallbackGame are kept as the entries of their object; a
\* Message must hold the three fields it requires.
deserialize_scalar(type, j) ==
    CASE type \in {"String", "InputFile"} -> deserialize_String(j)
      [] type = "i32" -> deserialize_i64(j)
      [] type = "f32" -> IF j.t \in {"float", "number"} THEN Ok(j.v) ELSE Err("invalid type")
      [] type = "bool" -> IF j.t = "bool" THEN Ok(j.v) ELSE Err("invalid type")
      [] type = "FileToSend" -> deserialize_FileToSend(j)
      [] type \in UnitEnums -> deserialize_unit_enum(type, j)
      [] type = "Message" ->
           IF j.t # "object" THEN Err("invalid type")
           ELSE IF \E k \in {"message_id", "date", "chat"} : Positions(j.v, k) = {}
           THEN Err("missing field")
           ELSE Ok(j.v)
      [] type = "CallbackGame" -> IF j.t = "object" THEN Ok(j.v) ELSE Err("invalid type")

\* The derived visitor without #[serde(default)]: a defaulted field that is
\* absent is an error like a required one.
visit_field_without_default(f, o, r) ==
    IF Cardinality(Positions(o, f.name)) > 1 THEN Err("duplicate field " \o f.name)
    ELSE IF Positions(o, f.name) = {}
    THEN IF f.rule \in {"required", "default"} THEN Err("missing field " \o f.name)
         ELSE Ok(<<>>)
    ELSE IF f.rule \notin {"option", "option_skip"} THEN r
    ELSE IF ValueAt(o, f.name).t = "null" THEN Ok(<<>>)
    ELSE IF is_ok(r) THEN Ok(<<r.value>>) ELSE r

\* The value the entries o hold for a field, null standing in where they hold
\* none.
Present(o, name) == IF Positions(o, name) = {} THEN JNullValue ELSE ValueAt(o, name)

\* What the derived visitor makes of one field of a struct, given the entries
\* o of the object and the result r of decoding the field's value as the
\* field's type: a field met twice is an error; a field that is absent is
\* None for an Option, the default for a defaulted field and an error
\* otherwise; null is None for an Option.
visit_field(f, o, r) ==
    IF Cardinality(Positions(o, f.name)) > 1 THEN Err("duplicate field " \o f.name)
    ELSE IF Positions(o, f.name) = {}
    THEN CASE f.rule = "required" -> Err("missing field " \o f.name)
           [] f.rule = "default" -> Ok(DefaultOf(f.type))
           [] OTHER -> Ok(None)
    ELSE IF f.rule \notin {"option", "option_skip"} THEN r
    ELSE IF ValueAt(o, f.name).t = "null" THEN Ok(None)
    ELSE IF is_ok(r) THEN Ok(Some(r.value)) ELSE r

\* The struct the derived visitor builds from the results got of its fields
\* fs: the value with the given tag and the fields' values, or the error of
\* a field. Of several errors the model reports the one of the field
\* declared first.
visit_map_struct(fs, tag, got) ==
    IF \E i \in DOMAIN fs : is_err(got[i])
    THEN got[CHOOSE i \in DOMAIN fs : is_err(got[i]) /\ \A k \in 1..(i - 1) : is_ok(got[k])]
    ELSE Ok([n \in {fs[i].name : i \in DOMAIN fs} \cup {"tag"} |->
               IF n = "tag" THEN tag
               ELSE got[CHOOSE i \in DOMAIN fs : fs[i].name = n].value])

\* Derived Deserialize of a struct whose fields are of scalar types, from
\* the entries o of an object; keys that name no field are ignored.
deserialize_flat_struct(struct, tag, o) ==
    visit_map_struct(FieldsOf(struct), tag,
                     [i \in DOMAIN FieldsOf(struct) |->
                        visit_field(FieldsOf(struct)[i], o,
                                    deserialize_scalar(FieldsOf(struct)[i].type,
                                                       Present(o, FieldsOf(struct)[i].name)))])

\* Deserialize of what a variant of InlineKeyboardButtonPressed holds.
deserialize_payload(type, j) ==
    IF type # "LoginUrl" THEN deserialize_scalar(type, j)
    ELSE IF j.t = "object" THEN deserialize_flat_struct(type, type, j.v)
    ELSE Err("invalid type")

\* Deserialize for InlineKeyboardButtonPressed out of what text left of the
\* button's entries (FlatMapDeserializer::deserialize_enum): the first entry
\* whose key names a variant selects the variant and its value is decoded as
\* what the variant holds, null for the unit variant; without such an entry
\* the decode fails, #[serde(other)] or not.
deserialize_InlineKeyboardButtonPressed(collect) ==
    LET named == {i \in DOMAIN collect :
                    collect[i].key \in KnownNames("InlineKeyboardButtonPressed")}
    IN  IF named = {} THEN NoVariantFound
        ELSE LET e == collect[CHOOSE i \in named : \A k \in named : i <= k]
                 variant == deserialize_identifier("InlineKeyboardButtonPressed", e.key).value
             IN  IF variant = "Unknown"
                 THEN IF e.val.t = "null" THEN Ok(Unit("Unknown")) ELSE Err("invalid type")
                 ELSE LET r == deserialize_payload(PayloadOf(variant), e.val)
                      IN  IF is_ok(r) THEN Ok(Pressed(variant, r.value)) ELSE r

\* Derived Deserialize of InlineKeyboardButton: text is a field, every other
\* entry is collected for the flattened pressed.
deserialize_InlineKeyboardButton(j) ==
    IF j.t # "object" THEN Err("invalid type")
    ELSE LET text == visit_field(Field("text", "String", "required"), j.v,
                                 deserialize_String(Present(j.v, "text")))
             pressed == deserialize_InlineKeyboardButtonPressed(
                            SelectSeq(j.v, LAMBDA e : e.key # "text"))
         IN  IF is_err(text) THEN text
             ELSE IF is_err(pressed) THEN pressed
             ELSE Ok(InlineKeyboardButton(text.value, pressed.value))

\* Derived Deserialize of KeyboardButton.
deserialize_KeyboardButton(j) ==
    IF j.t = "object"
    THEN deserialize_flat_struct("KeyboardButton", "KeyboardButton", j.v)
    ELSE Err("invalid type")

\* Deserialize for Vec<Vec<T>>, given the results got of decoding the
\* elements of the rows as T: the rows of values, or the error of the first
\* element that has one.
visit_rows(got) ==
    LET cells == UNION {{<<r, c>> : c \in DOMAIN got[r]} : r \in DOMAIN got}
        failed == {p \in cells : is_err(got[p[1]][p[2]])}
    IN  IF failed # {}
        THEN LET first == CHOOSE p \in failed : \A q \in failed :
                             p[1] < q[1] \/ (p[1] = q[1] /\ p[2] <= q[2])
             IN  got[first[1]][first[2]]
        ELSE Ok([r \in DOMAIN got |-> [c \in DOMAIN got[r] |-> got[r][c].value]])

\* The JSON value is an array of arrays.
IsRows(j) == j.t = "array" /\ \A r \in DOMAIN j.v : j.v[r].t = "array"

\* Deserialize of a value by its type.
deserialize_as(type, j) ==
    CASE type = "Vec<Vec<InlineKeyboardButton>>" ->
           IF IsRows(j)
           THEN visit_rows([r \in DOMAIN j.v |-> [c \in DOMAIN j.v[r].v |->
                               deserialize_InlineKeyboardButton(j.v[r].v[c])]])
           ELSE Err("invalid type")
      [] type = "Vec<Vec<KeyboardButton>>" ->
           IF IsRows(j)
           THEN visit_rows([r \in DOMAIN j.v |-> [c \in DOMAIN j.v[r].v |->
                               deserialize_KeyboardButton(j.v[r].v[c])]])
           ELSE Err("invalid type")
      [] OTHER -> deserialize_scalar(type, j)

\* Derived Deserialize of a struct from the entries o of an object; keys
\* that name no field are ignored.
deserialize_struct(struct, tag, o) ==
    visit_map_struct(FieldsOf(struct), tag,
                     [i \in DOMAIN FieldsOf(struct) |->
                        visit_field(FieldsOf(struct)[i], o,
                                    deserialize_as(FieldsOf(struct)[i].type,
                                                   Present(o, FieldsOf(struct)[i].name)))])

\* A struct is read from an object.
deserialize_object(struct, tag, j) ==
    IF j.t = "object" THEN deserialize_struct(struct, tag, j.v) ELSE Err("invalid type")

\* ---- enums tagged by the field type ----

TaggedEnums == {"ChatType", "InputMedia"}

\* Derived Serialize of an internally tagged enum: the tag first, then the
\* variant's fields.
serialize_tagged_enum(enum, x) ==
    JObject(<<Entry("type", JString(WireNames(enum)[x.tag]))>>
            \o serialize_flat_struct(enum \o "::" \o x.tag, x))

\* Derived Deserialize of an internally tagged enum: the value must be an
\* object that has the tag; the tag's string selects the variant, whose
\* fields are read from the other entries. For the unit variant Unknown the
\* other entries are ignored.
deserialize_tagged_enum(enum, j) ==
    IF j.t # "object" THEN Err("invalid type")
    ELSE IF Positions(j.v, "type") = {} THEN Err("missing field type")
    ELSE IF Cardinality(Positions(j.v, "type")) > 1 THEN Err("duplicate field type")
    ELSE IF ValueAt(j.v, "type").t # "string" THEN Err("invalid type")
    ELSE LET id == deserialize_identifier(enum, ValueAt(j.v, "type").v)
         IN  IF is_err(id) THEN id
             ELSE deserialize_flat_struct(enum \o "::" \o id.value, id.value,
                                          SelectSeq(j.v, LAMBDA e : e.key # "type"))

\* ---- untagged enums of structs ----

\* The variants of each untagged enum of structs, in declaration order, each
\* with the struct it holds.
UntaggedVariants(enum) ==
    CASE enum = "ReplyMarkup" ->
           <<[variant |-> "InlineKeyboard", struct |-> "InlineKeyboardMarkup"],
             [variant |-> "ReplyKeyboard", struct |-> "ReplyKeyboardMarkup"],
             [variant |-> "ReplyKeyboardRemove", struct |-> "ReplyKeyboardRemove"],
             [variant |-> "ForceReply", struct |-> "ForceReply"]>>
      [] enum = "InputMessageContent" ->
           <<[variant |-> "Text", struct |-> "InputTextMessageContent"],
             [variant |-> "Location", struct |-> "InputLocationMessageContent"],
             [variant |-> "Venue", struct |-> "InputVenueMessageContent"],
             [variant |-> "Contact", struct |-> "InputContactMessageContent"]>>

UntaggedEnums == {"ReplyMarkup", "InputMessageContent"}

\* Derived Serialize of an untagged enum: the struct the variant holds.
serialize_untagged_enum(enum, x) ==
    LET vs == UntaggedVariants(enum)
        held == vs[CHOOSE i \in DOMAIN vs : vs[i].variant = x.tag]
    IN  JObject(serialize_struct(held.struct, x))

\* Derived Deserialize of an untagged enum: the buffered value is tried as
\* each variant's struct in declaration order, and the first that decodes is
\* the result.
deserialize_untagged_enum(enum, j) ==
    LET vs == UntaggedVariants(enum)
        tried == [i \in DOMAIN vs |->
                    deserialize_object(vs[i].struct, vs[i].variant, j)]
        matched == {i \in DOMAIN vs : is_ok(tried[i])}
    IN  IF matched = {} THEN NoVariantMatched(enum)
        ELSE tried[CHOOSE i \in matched : \A k \in matched : i <= k]

\* ---- the values that are encoded ----

\* The strings of text fields.
Texts == {"Cocona"}

MaxDim == 1

\* The values of the i32 and f32 fields.
Dims == 0..MaxDim

ParseModes == {Unit(v) : v \in {"Markdown", "HTML"}}

\* One FileToSend of each variant.
MediaFiles ==
    {FileToSend_FileId("42"), FileToSend_Url("https://example.com/a.png"),
     FileToSend_InputFile(InputFile_new("cocona.webp"))}

Thumbs == {InputFile_new("cocona.webp")}

\* The values of an enum of unit variants.
UnitValues(enum) == {Unit(v) : v \in DOMAIN WireNames(enum)}

\* The values of ChatType; pinned_message is held at None.
ChatTypes ==
    [tag : {"Private"}, username : Option(Texts), first_name : Texts,
     last_name : Option(Texts)]
    \cup [tag : {"Group"}, title : Texts, username : Option(Texts),
          all_members_are_administrators : BOOLEAN]
    \cup [tag : {"Supergroup"}, title : Texts, username : Option(Texts),
          all_members_are_administrators : BOOLEAN, pinned_message : {None},
          sticker_set_name : Option(Texts), can_set_sticker_set : Option(BOOLEAN),
          invite_link : Option(Texts), description : Option(Texts)]
    \cup [tag : {"Channel"}, title : Texts, username : Option(Texts),
          pinned_message : {None}, invite_link : Option(Texts),
          description : Option(Texts)]
    \cup {Unit("Unknown")}

\* The values of InputMedia.
InputMedias ==
    [tag : {"Video"}, media : MediaFiles, caption : Option(Texts),
     parse_mode : Option(ParseModes), width : Option(Dims), height : Option(Dims),
     duration : Option(Dims), supports_streaming : Option(BOOLEAN)]
    \cup [tag : {"Photo"}, media : MediaFiles, caption : Option(Texts),
          parse_mode : Option(ParseModes)]
    \cup [tag : {"Animation"}, media : MediaFiles, thumb : Option(Thumbs),
          caption : Option(Texts), parse_mode : Option(ParseModes),
          width : Option(Dims), height : Option(Dims), duration : Option(Dims)]
    \cup [tag : {"Audio"}, media : MediaFiles, thumb : Option(Thumbs),
          caption : Option(Texts), parse_mode : Option(ParseModes),
          duration : Option(Dims), performer : Option(Texts), title : Option(Texts)]
    \cup [tag : {"Document"}, media : MediaFiles, thumb : Option(Thumbs),
          caption : Option(Texts), parse_mode : Option(ParseModes)]
    \cup {Unit("Unknown")}

\* Inline keyboard buttons whose pressed holds a value.
InlineKeyboardButtons ==
    {InlineKeyboardButton(s, Pressed("Url", "https://example.com/a.png")) : s \in Texts}
    \cup {InlineKeyboardButton(s, Pressed("CallbackData", "42")) : s \in Texts}
    \cup {InlineKeyboardButton(s, Pressed("Pay", TRUE)) : s \in Texts}

\* Keyboards: none, or one row of one button.
InlineKeyboards == {<<>>} \cup {<< <<b>> >> : b \in InlineKeyboardButtons}

KeyboardButtons ==
    [tag : {"KeyboardButton"}, text : Texts, request_contact : Option({TRUE}),
     request_location : {None}]

Keyboards == {<<>>} \cup {<< <<b>> >> : b \in KeyboardButtons}

InlineKeyboardMarkups == [tag : {"InlineKeyboard"}, inline_keyboard : InlineKeyboards]

\* The values of ReplyMarkup.
ReplyMarkups ==
    InlineKeyboardMarkups
    \cup [tag : {"ReplyKeyboard"}, keyboard : Keyboards,
          resize_keyboard : Option({TRUE}), one_time_keyboard : Option({TRUE}),
          selective : Option({TRUE})]
    \cup [tag : {"ReplyKeyboardRemove"}, remove_keyboard : BOOLEAN,
          selective : Option(BOOLEAN)]
    \cup [tag : {"ForceReply"}, force_reply : BOOLEAN, selective : Option(BOOLEAN)]

\* The values of InputMessageContent.
InputMessageContents ==
    [tag : {"Text"}, message_text : Texts, parse_mode : Option(ParseModes),
     disable_web_page_preview : Option(BOOLEAN)]
    \cup [tag : {"Location"}, latitude : Dims, longitude : Dims,
          live_period : Option(Dims)]
    \cup [tag : {"Venue"}, latitude : Dims, longitude : Dims, title : Texts,
          address : Texts, foursquare_id : Option(Texts),
          foursquare_type : Option(Texts)]
    \cup [tag : {"Contact"}, phone_number : Texts, first_name : Texts,
          last_name : Option(Texts), vcard : Option(Texts)]

\* ---- the JSON values that are decoded ----

\* Inputs of the enums of unit variants: names in the case of the wire and
\* in other cases, names no enum has, and values that are not names.
UnitInputs ==
    {JString(s) : s \in {"Flip Flappers", "bold", "Bold", "text_link", "member",
                         "Member", "Markdown", "markdown", "HTML", "unknown", ""}}
    \cup {JNullValue, JNumber(1), JBool(TRUE), EmptyObject,
          JArray(<<JString("bold")>>),
          JObject(<<Entry("bold", JNullValue)>>),
          JObject(<<Entry("Flip Flappers", JNullValue)>>),
          JObject(<<Entry("bold", JNumber(1))>>)}

\* Inputs of ChatType.
ChatTypeInputs ==
    {JObject(<<Entry("type", JString("Papika")), Entry("Cocona", JString("Mimi"))>>),
     JObject(<<Entry("Cocona", JString("Mimi")), Entry("type", JString("Papika"))>>),
     JObject(<<Entry("type", JString("Private")), Entry("first_name", JString("Cocona"))>>),
     JObject(<<Entry("type", JString("private")), Entry("first_name", JString("Cocona"))>>),
     JObject(<<Entry("first_name", JString("Cocona")), Entry("type", JString("private"))>>),
     JObject(<<Entry("type", JString("private"))>>),
     JObject(<<Entry("type", JString("group"))>>),
     JObject(<<Entry("type", JString("group")), Entry("title", JString("Cocona"))>>),
     JObject(<<Entry("type", JString("group")), Entry("title", JNumber(1))>>),
     JObject(<<Entry("type", JString("forum")), Entry("title", JNumber(1))>>),
     JObject(<<Entry("type", JString(""))>>),
     JObject(<<Entry("first_name", JString("Cocona"))>>),
     JObject(<<Entry("type", JNullValue)>>),
     EmptyObject, JString("private"), JNullValue}

\* Inputs of InputMedia.
InputMediaInputs ==
    {JObject(<<Entry("type", JString("photo")), Entry("media", JString("42"))>>),
     JObject(<<Entry("type", JString("Photo")), Entry("media", JString("42"))>>),
     JObject(<<Entry("type", JString("sticker")), Entry("media", JNumber(1))>>),
     JObject(<<Entry("type", JString("sticker"))>>),
     JObject(<<Entry("type", JString("video"))>>),
     JObject(<<Entry("media", JString("42"))>>),
     EmptyObject, JString("photo"), JNullValue}

\* Inputs of InlineKeyboardButton: with one action field, with none, with
\* fields that name no action, with two.
InlineKeyboardButtonInputs ==
    {JObject(<<Entry("text", JString("Cocona")), Entry("url", JString("42"))>>),
     JObject(<<Entry("text", JString("Cocona"))>>),
     JObject(<<Entry("text", JString("Cocona")), Entry("web_app", EmptyObject)>>),
     JObject(<<Entry("text", JString("Cocona")), Entry("copy_text", JString("42"))>>),
     JObject(<<Entry("text", JString("Cocona")), Entry("unknown", JNullValue)>>),
     JObject(<<Entry("text", JString("Cocona")), Entry("unknown", JString("42"))>>),
     JObject(<<Entry("text", JString("Cocona")), Entry("web_app", EmptyObject),
               Entry("callback_data", JString("42"))>>),
     JObject(<<Entry("text", JString("Cocona")), Entry("pay", JBool(TRUE)),
               Entry("url", JString("42"))>>),
     JObject(<<Entry("url", JString("42")), Entry("text", JString("Cocona")),
               Entry("pay", JBool(TRUE))>>),
     JObject(<<Entry("text", JString("Cocona")), Entry("callback_data", JNumber(1))>>),
     JObject(<<Entry("text", JString("Cocona")), Entry("callback_game", EmptyObject)>>),
     JObject(<<Entry("text", JString("Cocona")),
               Entry("login_url", JObject(<<Entry("url", JString("42"))>>))>>),
     JObject(<<Entry("url", JString("42"))>>),
     EmptyObject, JString("Cocona")}

\* Inputs of InlineKeyboardMarkup: a keyboard of one row that holds one of
\* the buttons above, an empty keyboard, no keyboard.
InlineKeyboardMarkupInputs ==
    {JObject(<<Entry("inline_keyboard", JArray(<<JArray(<<b>>)>>))>>) :
        b \in InlineKeyboardButtonInputs}
    \cup {JObject(<<Entry("inline_keyboard", JArray(<<>>))>>), EmptyObject,
          JObject(<<Entry("inline_keyboard", JNullValue)>>), JNullValue}

\* Inputs of ReplyKeyboardMarkup: without the keyboard, alone and beside other
\* fields, well-formed and not; with a keyboard; with null for it.
ReplyKeyboardMarkupInputs ==
    {EmptyObject, JNullValue,
     JObject(<<Entry("resize_keyboard", JBool(TRUE))>>),
     JObject(<<Entry("selective", JBool(FALSE)), Entry("Cocona", JNumber(1))>>),
     JObject(<<Entry("selective", JString("Cocona"))>>),
     JObject(<<Entry("keyboard", JArray(<<>>))>>),
     JObject(<<Entry("keyboard",
                     JArray(<<JArray(<<JObject(<<Entry("text", JString("Cocona"))>>)>>)>>))>>),
     JObject(<<Entry("keyboard", JNullValue)>>)}

\* Inputs of the untagged enums of structs.
UntaggedInputs ==
    {EmptyObject, JNullValue, JString("Cocona"),
     JObject(<<Entry("force_reply", JBool(TRUE))>>),
     JObject(<<Entry("remove_keyboard", JBool(TRUE))>>),
     JObject(<<Entry("keyboard", JArray(<<>>))>>),
     JObject(<<Entry("inline_keyboard", JNumber(1)), Entry("force_reply", JBool(TRUE))>>),
     JObject(<<Entry("latitude", JF32(1)), Entry("longitude", JF32(1))>>),
     JObject(<<Entry("latitude", JF32(1)), Entry("longitude", JF32(1)),
               Entry("title", JString("Cocona")), Entry("address", JString("Cocona"))>>),
     JObject(<<Entry("message_text", JString("Cocona"))>>),
     JObject(<<Entry("phone_number", JString("42")), Entry("first_name", JString("Cocona"))>>)}

\* ---- the types of the model, their values, inputs, encoders and decoders ----

\* The values of type t that are encoded and decoded again.
ValuesOf(t) ==
    CASE t = "ChatTarget" -> ChatTargets
      [] t = "FileToSend" -> FileToSends
      [] t \in UnitEnums -> UnitValues(t)
      [] t = "ChatType" -> ChatTypes
      [] t = "InputMedia" -> InputMedias
      [] t = "InlineKeyboardButton" -> InlineKeyboardButtons
      [] t = "InlineKeyboardMarkup" -> InlineKeyboardMarkups
      [] t = "ReplyKeyboardMarkup" -> {x \in ReplyMarkups : x.tag = "ReplyKeyboard"}
      [] t = "ReplyMarkup" -> ReplyMarkups
      [] t = "InputMessageContent" -> InputMessageContents

\* The JSON values decoded as type t without having been encoded by it.
InputsOf(t) ==
    CASE t = "ChatTarget" -> ScalarInputs
      [] t = "FileToSend" -> ScalarInputs
      [] t \in UnitEnums -> UnitInputs
      [] t = "ChatType" -> ChatTypeInputs
      [] t = "InputMedia" -> InputMediaInputs
      [] t = "InlineKeyboardButton" -> InlineKeyboardButtonInputs
      [] t = "InlineKeyboardMarkup" -> InlineKeyboardMarkupInputs
      [] t = "ReplyKeyboardMarkup" -> ReplyKeyboardMarkupInputs
      [] t \in UntaggedEnums -> UntaggedInputs

\* serde_json::to_string / to_value of a value of type t.
serialize(t, x) ==
    CASE t = "ChatTarget" -> serialize_ChatTarget(x)
      [] t = "FileToSend" -> serialize_FileToSend(x)
      [] t \in UnitEnums -> serialize_unit_enum(t, x)
      [] t \in TaggedEnums -> serialize_tagged_enum(t, x)
      [] t = "InlineKeyboardButton" -> serialize_InlineKeyboardButton(x)
      [] t \in {"InlineKeyboardMarkup", "ReplyKeyboardMarkup"} ->
           JObject(serialize_struct(t, x))
      [] t \in UntaggedEnums -> serialize_untagged_enum(t, x)

\* serde_json::from_str / from_value as type t.
deserialize(t, j) ==
    CASE t = "ChatTarget" -> deserialize_ChatTarget(j)
      [] t = "FileToSend" -> deserialize_FileToSend(j)
      [] t \in UnitEnums -> deserialize_unit_enum(t, j)
      [] t \in TaggedEnums -> deserialize_tagged_enum(t, j)
      [] t = "InlineKeyboardButton" -> deserialize_InlineKeyboardButton(j)
      [] t = "InlineKeyboardMarkup" ->
           deserialize_object(t, "InlineKeyboard", j)
      [] t = "ReplyKeyboardMarkup" ->
           deserialize_object(t, "ReplyKeyboard", j)
      [] t \in UntaggedEnums -> deserialize_untagged_enum(t, j)

Types ==
    {"ChatTarget", "FileToSend"} \cup UnitEnums \cup TaggedEnums
    \cup {"InlineKeyboardButton", "InlineKeyboardMarkup", "ReplyKeyboardMarkup"}
    \cup UntaggedEnums

\* Either a value of one of the types waits to be encoded, or a JSON value has
\* arrived to be decoded as one of them.
InitCodec ==
    /\ ty \in Types
    /\ \/ value \in {Some(x) : x \in ValuesOf(ty)} /\ json = None
       \/ value = None /\ json \in {Some(j) : j \in InputsOf(ty)}
    /\ decoded = None
    /\ IdleResult
    /\ IdleUpdate
    /\ IdleId
    /\ IdleEcho
    /\ IdleMethod
    /\ IdlePoll

\* The value is encoded.
Encode ==
    /\ is_some(value)
    /\ json = None
    /\ json' = Some(serialize(ty, unwrap(value)))
    /\ UNCHANGED <<ty, value, decoded, resultVars, updateVars, idVars, echoVars,
                   methodVars, pollVars>>

\* The JSON value is decoded.
Decode ==
    /\ is_some(json)
    /\ decoded = None
    /\ decoded' = Some(deserialize(ty, unwrap(json)))
    /\ UNCHANGED <<ty, value, json, resultVars, updateVars, idVars, echoVars,
                   methodVars, pollVars>>

NextCodec == Encode \/ Decode

SpecCodec == InitCodec /\ [][NextCodec]_vars

(***************************************************************************)
(* Identifier arithmetic: the operators impl_id! gives UserId, ChatId,     *)
(* MessageId and UpdateId.                                                 *)
(***************************************************************************)

\* The width of the identifiers' integer, i64 in the source, scaled down.
IdBits == 4

I64_MIN == 0 - 2^(IdBits - 1)

I64_MAX == 2^(IdBits - 1) - 1

i64 == I64_MIN..I64_MAX

\* The value of the width that is congruent to x.
wrapping(x) == ((x - I64_MIN) % 2^IdBits) + I64_MIN

IdKinds == {"UserId", "ChatId", "MessageId", "UpdateId"}

\* An identifier: the struct of the kind around its integer.
Id(kind, v) == [kind |-> kind, v |-> v]

Ids == [kind : IdKinds, v : i64]

\* How an operation ends: it returns a value, or the thread panics.
Returned(x) == [tag |-> "Returned", value |-> x]

Panic == [tag |-> "Panic"]

\* a + b on i64: exact when the sum fits; otherwise a panic in a build with
\* overflow checks (debug) and the wrapped sum in a build without (release).
i64_add(a, b, checks) ==
    IF a + b \in i64 THEN Returned(a + b)
    ELSE IF checks THEN Panic ELSE Returned(wrapping(a + b))

\* a - b on i64, likewise.
i64_sub(a, b, checks) ==
    IF a - b \in i64 THEN Returned(a - b)
    ELSE IF checks THEN Panic ELSE Returned(wrapping(a - b))

\* The identifier of self's kind around the integer an operation returned.
Rewrap(self, r) == IF r.tag = "Panic" THEN Panic ELSE Returned(Id(self.kind, r.value))

\* impl Add<$Ty> for $Id
add(self, other, checks) == Rewrap(self, i64_add(self.v, other, checks))

\* impl Add<&$Ty> for $Id
add_ref(self, other, checks) == Rewrap(self, i64_add(self.v, other, checks))

\* impl Sub<$Ty> changed to add.
sub_adds(self, other, checks) == Rewrap(self, i64_add(self.v, other, checks))

\* impl Sub<$Ty> for $Id
sub(self, other, checks) == Rewrap(self, i64_sub(self.v, other, checks))

\* impl AddAssign<$Ty> for $Id: what self holds afterwards.
add_assign(self, r, checks) == Rewrap(self, i64_add(self.v, r, checks))

\* impl SubAssign<$Ty> for $Id: what self holds afterwards.
sub_assign(self, r, checks) == Rewrap(self, i64_sub(self.v, r, checks))

\* derive(PartialOrd, Ord) on the tuple struct: the order of the inner
\* integers.
lt(a, b) == a.v < b.v

Ops == {"add", "add_ref", "sub", "add_assign", "sub_assign"}

\* An identifier, an integer and an operator, in either kind of build.
InitId ==
    /\ lhs \in Ids
    /\ rhs \in i64
    /\ op \in Ops
    /\ overflow_checks \in BOOLEAN
    /\ out = None
    /\ IdleResult
    /\ IdleUpdate
    /\ IdleCodec
    /\ IdleEcho
    /\ IdleMethod
    /\ IdlePoll

\* lhs + rhs
Add ==
    /\ op = "add"
    /\ out = None
    /\ out' = Some(add(lhs, rhs, overflow_checks))
    /\ UNCHANGED <<lhs, rhs, op, overflow_checks, resultVars, updateVars, codecVars, echoVars,
                   methodVars, pollVars>>

\* lhs + &rhs
AddRef ==
    /\ op = "add_ref"
    /\ out = None
    /\ out' = Some(add_ref(lhs, rhs, overflow_checks))
    /\ UNCHANGED <<lhs, rhs, op, overflow_checks, resultVars, updateVars, codecVars, echoVars,
                   methodVars, pollVars>>

\* lhs - rhs
Sub ==
    /\ op = "sub"
    /\ out = None
    /\ out' = Some(sub(lhs, rhs, overflow_checks))
    /\ UNCHANGED <<lhs, rhs, op, overflow_checks, resultVars, updateVars, codecVars, echoVars,
                   methodVars, pollVars>>

\* lhs += rhs: lhs changes in place unless the addition panics; out keeps the
\* identifier as it was before.
AddAssign ==
    /\ op = "add_assign"
    /\ out = None
    /\ LET r == add_assign(lhs, rhs, overflow_checks)
       IN  IF r.tag = "Panic"
           THEN lhs' = lhs /\ out' = Some(Panic)
           ELSE lhs' = r.value /\ out' = Some(Returned(lhs))
    /\ UNCHANGED <<rhs, op, overflow_checks, resultVars, updateVars, codecVars, echoVars,
                   methodVars, pollVars>>

\* lhs -= rhs, likewise.
SubAssign ==
    /\ op = "sub_assign"
    /\ out = None
    /\ LET r == sub_assign(lhs, rhs, overflow_checks)
       IN  IF r.tag = "Panic"
           THEN lhs' = lhs /\ out' = Some(Panic)
           ELSE lhs' = r.value /\ out' = Some(Returned(lhs))
    /\ UNCHANGED <<rhs, op, overflow_checks, resultVars, updateVars, codecVars, echoVars,
                   methodVars, pollVars>>

NextId == Add \/ AddRef \/ Sub \/ AddAssign \/ SubAssign

SpecId == InitId /\ [][NextId]_vars

(***************************************************************************)
(* The long-polling loop of examples/echo.rs.                              *)
(***************************************************************************)

\* The most updates one response carries, and the most requests the loop
\* makes in the model.
MaxBatch == 2

MaxRequests == 3

\* The update_ids of a response's updates, in order. The loop reads nothing
\* of an update but its update_id and its content, and the content has no
\* part in the offset.
Batches == UNION {[1..n -> 1..MaxUpdateId] : n \in 0..MaxBatch}

\* GetUpdates::new(): no offset.
GetUpdates_new == None

\* GetUpdates::offset changed to leave the offset alone.
GetUpdates_offset_unset(self, x) == self

\* GetUpdates::offset
GetUpdates_offset(self, x) == Some(x)

\* let mut get_update = GetUpdates::new(), in either kind of build.
InitEcho ==
    /\ pc = "request"
    /\ get_update = GetUpdates_new
    /\ updates = <<>>
    /\ index = 1
    /\ request = None
    /\ seen = FALSE
    /\ requests = 0
    /\ lhs = <<>>
    /\ rhs = 0
    /\ op = ""
    /\ overflow_checks \in BOOLEAN
    /\ out = <<>>
    /\ IdleResult
    /\ IdleUpdate
    /\ IdleCodec
    /\ IdleMethod
    /\ IdlePoll

\* make_request(&get_update).await.result.unwrap() with a result: the request
\* carries the offset get_update has, and the response's updates are looped
\* over from the first.
MakeRequest ==
    /\ pc = "request"
    /\ requests < MaxRequests
    /\ request' = get_update
    /\ requests' = requests + 1
    /\ \E batch \in Batches : updates' = batch
    /\ index' = 1
    /\ pc' = "for"
    /\ UNCHANGED <<get_update, seen, idVars, resultVars, updateVars, codecVars,
                   methodVars, pollVars>>

\* The same request answered without a result: unwrap panics.
MakeRequestNoResult ==
    /\ pc = "request"
    /\ requests < MaxRequests
    /\ request' = get_update
    /\ requests' = requests + 1
    /\ pc' = "panicked"
    /\ UNCHANGED <<get_update, updates, index, seen, idVars, resultVars, updateVars, codecVars,
                   methodVars, pollVars>>

\* One turn of the for loop: the update is handled (its content echoed or
\* printed, which leaves get_update alone) and
\* get_update.offset(update.update_id + 1) is called.
HandleUpdate ==
    /\ pc = "for"
    /\ index <= Len(updates)
    /\ LET r == add(Id("UpdateId", updates[index]), 1, overflow_checks)
       IN  IF r.tag = "Panic"
           THEN pc' = "panicked" /\ UNCHANGED get_update
           ELSE pc' = pc /\ get_update' = GetUpdates_offset(get_update, r.value.v)
    /\ index' = index + 1
    /\ seen' = TRUE
    /\ UNCHANGED <<updates, request, requests, idVars, resultVars, updateVars, codecVars,
                   methodVars, pollVars>>

\* The for loop is through the updates: the loop goes round.
EndFor ==
    /\ pc = "for"
    /\ index > Len(updates)
    /\ pc' = "request"
    /\ UNCHANGED <<get_update, updates, index, request, seen, requests,
                   idVars, resultVars, updateVars, codecVars,
                   methodVars, pollVars>>

NextEcho == MakeRequest \/ MakeRequestNoResult \/ HandleUpdate \/ EndFor

SpecEcho == InitEcho /\ [][NextEcho]_vars

(***************************************************************************)
(* The method table: trait Method, the endpoint name and the response type *)
(* impl_method! gives each request type, the url of a method and the       *)
(* decoding of a response body as TelegramResult<Item>.                    *)
(***************************************************************************)

\* impl_method_table! and the impl_method! of AnswerInlineQuery: request
\* type, NAME, Item.
MethodTable ==
    <<<<"GetMe", "getMe", "User">>,
      <<"DeleteWebhook", "deleteWebhook", "bool">>,
      <<"GetWebhookInfo", "getWebhookInfo", "WebhookInfo">>,
      <<"GetUpdates", "getUpdates", "Vec<Update>">>,
      <<"SetWebhook", "setWebhook", "bool">>,
      <<"SendMessage", "sendMessage", "Message">>,
      <<"ForwardMessage", "forwardMessage", "Message">>,
      <<"CopyMessage", "copyMessage", "MessageIdResult">>,
      <<"SendMediaGroup", "sendMediaGroup", "Vec<Message>">>,
      <<"EditMessageText", "editMessageText", "Message">>,
      <<"EditMessageMedia", "editMessageMedia", "Message">>,
      <<"EditMessageReplyMarkup", "editMessageReplyMarkup", "Message">>,
      <<"DeleteMessage", "deleteMessage", "bool">>,
      <<"EditMessageCaption", "editMessageCaption", "bool">>,
      <<"SendSticker", "sendSticker", "Message">>,
      <<"SendPhoto", "sendPhoto", "Message">>,
      <<"SendDocument", "sendDocument", "Message">>,
      <<"GetChat", "getChat", "Chat">>,
      <<"GetChatAdministrators", "getChatAdministrators", "Vec<ChatMember>">>,
      <<"GetChatMembersCount", "getChatMembersCount", "i32">>,
      <<"GetChatMember", "getChatMember", "ChatMember">>,
      <<"AnswerCallbackQuery", "answerCallbackQuery", "bool">>,
      <<"ApproveJoinRequest", "approveChatJoinRequest", "bool">>,
      <<"DeclineJoinRequest", "declineChatJoinRequest", "bool">>,
      <<"AnswerInlineQuery", "answerInlineQuery", "bool">>>>

\* The request types that implement Method.
Methods == {MethodTable[i][1] : i \in DOMAIN MethodTable}

\* const NAME of a request type.
NAME(m) == MethodTable[CHOOSE i \in DOMAIN MethodTable : MethodTable[i][1] = m][2]

\* type Item of a request type.
Item(m) == MethodTable[CHOOSE i \in DOMAIN MethodTable : MethodTable[i][1] = m][3]

\* Method::url changed to leave the slash before the name out.
url_without_slash(m, t) == "https://api.telegram.org/bot" \o t \o NAME(m)

\* Method::url: format!("https://api.telegram.org/bot{}/{}", token, Self::NAME)
url(m, t) == "https://api.telegram.org/bot" \o t \o "/" \o NAME(m)

\* struct Chat without #[serde(flatten)] on kind: the field, renamed type,
\* holds the ChatType itself.
deserialize_Chat_unflattened(j) ==
    IF j.t # "object" THEN Err("invalid type")
    ELSE LET fs == <<Field("id", "i32", "required"),
                     Field("photo", "ChatPhoto", "option"),
                     Field("type", "ChatType", "required")>>
         IN  visit_map_struct(fs, "Chat",
                 <<visit_field(fs[1], j.v, deserialize_i64(Present(j.v, "id"))),
                   visit_field(fs[2], j.v,
                               deserialize_object("ChatPhoto", "ChatPhoto",
                                                  Present(j.v, "photo"))),
                   visit_field(fs[3], j.v,
                               deserialize_tagged_enum("ChatType",
                                                       Present(j.v, "type")))>>)

\* Derived Deserialize of struct Chat: id and photo are the struct's own
\* fields, every other entry is collected and the flattened kind: ChatType
\* is decoded from the collected entries, by its tag.
deserialize_Chat(j) ==
    IF j.t # "object" THEN Err("invalid type")
    ELSE LET fs == <<Field("id", "i32", "required"),
                     Field("photo", "ChatPhoto", "option"),
                     Field("kind", "ChatType", "flatten")>>
             collect == SelectSeq(j.v, LAMBDA e : e.key \notin {"id", "photo"})
         IN  visit_map_struct(fs, "Chat",
                 <<visit_field(fs[1], j.v, deserialize_i64(Present(j.v, "id"))),
                   visit_field(fs[2], j.v,
                               deserialize_object("ChatPhoto", "ChatPhoto",
                                                  Present(j.v, "photo"))),
                   deserialize_tagged_enum("ChatType", JObject(collect))>>)

\* The fields of struct Message the model keeps: the three it requires and
\* two of its optional ones.
MessageFields ==
    <<Field("message_id", "i32", "required"),
      Field("sender_chat", "Chat", "option"),
      Field("date", "i32", "required"),
      Field("chat", "Chat", "required"),
      Field("text", "String", "option")>>

\* Derived Deserialize of struct Message.
deserialize_Message(j) ==
    IF j.t # "object" THEN Err("invalid type")
    ELSE visit_map_struct(MessageFields, "Message",
             [i \in DOMAIN MessageFields |->
                 visit_field(MessageFields[i], j.v,
                     IF MessageFields[i].type = "Chat"
                     THEN deserialize_Chat(Present(j.v, MessageFields[i].name))
                     ELSE deserialize_scalar(MessageFields[i].type,
                                             Present(j.v, MessageFields[i].name)))])

\* The response types the model decodes.
Items == {"bool", "i32", "Message", "Chat"}

\* Deserialize of a response of type Item, and of the other fields of the
\* envelope.
deserialize_Item(item, j) ==
    CASE item = "Chat" -> deserialize_Chat(j)
      [] item = "Message" -> deserialize_Message(j)
      [] item = "ResponseParameters" ->
           IF j.t = "object" THEN Ok(j.v) ELSE Err("invalid type")
      [] OTHER -> deserialize_scalar(item, j)

\* The fields of struct TelegramResult<T>.
TelegramResultFields(item) ==
    <<Field("ok", "bool", "required"),
      Field("description", "String", "option"),
      Field("error_code", "i32", "option"),
      Field("result", item, "option"),
      Field("parameters", "ResponseParameters", "option")>>

\* serde_json::from_str::<TelegramResult<T::Item>>(body), the derived
\* Deserialize of the envelope.
from_str_TelegramResult(item, j) ==
    IF j.t # "object" THEN Err("invalid type")
    ELSE visit_map_struct(TelegramResultFields(item), "TelegramResult",
             [i \in DOMAIN TelegramResultFields(item) |->
                 visit_field(TelegramResultFields(item)[i], j.v,
                     deserialize_Item(TelegramResultFields(item)[i].type,
                                      Present(j.v, TelegramResultFields(item)[i].name)))])

\* The bot tokens of the model.
Tokens == {"42:Cocona", "7:Papika"}

\* A chat photo on the wire.
PhotoInput ==
    JObject(<<Entry("small_file_id", JString("Cocona")),
              Entry("big_file_id", JString("Papika"))>>)

\* Chat objects on the wire: of a known type, of a type the enum does not
\* know (with and without a photo, the type first and last), without a
\* type, without an id, and of a known type without the field it requires.
ChatInputs ==
    {JObject(<<Entry("id", JNumber(1)), Entry("type", JString("private")),
               Entry("first_name", JString("Cocona"))>>),
     JObject(<<Entry("id", JNumber(2)), Entry("type", JString("forum")),
               Entry("title", JString("Cocona"))>>),
     JObject(<<Entry("type", JString("forum")), Entry("photo", PhotoInput),
               Entry("id", JNumber(1))>>),
     JObject(<<Entry("id", JNumber(1)), Entry("photo", JNumber(1)),
               Entry("type", JString("forum"))>>),
     JObject(<<Entry("id", JNumber(1))>>),
     JObject(<<Entry("type", JString("forum"))>>),
     JObject(<<Entry("id", JNumber(1)), Entry("type", JString("group"))>>)}

\* Message objects on the wire: with each chat, with a text, with a sender
\* chat of an unknown type, and without the chat.
MessageInputs ==
    {JObject(<<Entry("message_id", JNumber(1)), Entry("date", JNumber(0)),
               Entry("chat", c)>>) : c \in ChatInputs}
    \cup {JObject(<<Entry("message_id", JNumber(2)), Entry("date", JNumber(0)),
                    Entry("chat", c), Entry("text", JString("Cocona")),
                    Entry("sender_chat", c)>>) : c \in ChatInputs}
    \cup {JObject(<<Entry("message_id", JNumber(1)), Entry("date", JNumber(0))>>)}

\* What the result field of a response holds.
ResultInputs ==
    {JBool(TRUE), JBool(FALSE), JNumber(1), JNullValue, JString("Cocona")}
    \cup ChatInputs \cup MessageInputs

\* Response bodies: a success with each result, and without a result; an
\* error; and bodies without ok, with an ok that is no boolean, and that are
\* no object.
Bodies ==
    {JObject(<<Entry("ok", JBool(TRUE)), Entry("result", r)>>) : r \in ResultInputs}
    \cup {JObject(<<Entry("result", r)>>) : r \in ResultInputs}
    \cup {JObject(<<Entry("ok", JBool(TRUE))>>),
          JObject(<<Entry("ok", JBool(FALSE)), Entry("error_code", JNumber(2)),
                    Entry("description", JString("Cocona"))>>),
          JObject(<<Entry("ok", JString("Cocona")), Entry("result", JBool(TRUE))>>),
          JObject(<<Entry("ok", JNullValue), Entry("result", JBool(TRUE))>>),
          EmptyObject, JNullValue}

\* A request of some type is to be made with some token, and some body will
\* answer it.
InitMethod ==
    /\ method \in Methods
    /\ token \in Tokens
    /\ body \in {Some(b) : b \in Bodies}
    /\ built = None
    /\ parsed = None
    /\ IdleResult
    /\ IdleUpdate
    /\ IdleCodec
    /\ IdleId
    /\ IdleEcho
    /\ IdlePoll

\* make_request: client.post(T::url(&*token))
Url ==
    /\ built = None
    /\ built' = Some(url(method, token))
    /\ UNCHANGED <<method, token, body, parsed, resultVars, updateVars, codecVars,
                   idVars, echoVars, pollVars>>

\* make_request: serde_json::from_str(&res).unwrap(), as
\* TelegramResult<T::Item>, for the response types the model decodes.
FromStr ==
    /\ is_some(built)
    /\ parsed = None
    /\ Item(method) \in Items
    /\ parsed' = Some(from_str_TelegramResult(Item(method), unwrap(body)))
    /\ UNCHANGED <<method, token, body, built, resultVars, updateVars, codecVars,
                   idVars, echoVars, pollVars>>

NextMethod == Url \/ FromStr

SpecMethod == InitMethod /\ [][NextMethod]_vars

(***************************************************************************)
(* PollingUpdater (src/src/bot/high.rs): the iterator whose next() takes   *)
(* the updates from a queue that a polling thread fills, and its Drop.     *)
(* The consumer's thread and the polling thread take their steps in any    *)
(* order.                                                                  *)
(***************************************************************************)

\* How many getUpdates requests the polling thread makes.
MaxPolls == 3

\* What a request with the given offset is answered by: an error, or a batch
\* of updates in ascending order of their identifiers, none of which is
\* below the offset.
Responses(offset) ==
    {Err("request")}
    \cup {Ok(b) : b \in {b \in Batches :
                             /\ \A i, k \in DOMAIN b : i < k => b[i] < b[k]
                             /\ offset = None \/ \A i \in DOMAIN b : b[i] >= unwrap(offset)}}

\* Vec::reverse left out.
reverse_left_out(v) == v

\* Vec::reverse
reverse(v) == [i \in DOMAIN v |-> v[Len(v) + 1 - i]]

\* Drop without the signal.
drop_without_signal(tx) == tx

\* Drop::drop with a control sender: tx.send(Signal::Stop)
drop_send(tx) == Append(tx, "Stop")

\* What next() does once self.updates is not empty: pop the last element,
\* store its update_id + 1 as the offset and return it. A panic of + 1 ends
\* the call.
PopAndReturn(vec) ==
    LET popped == vec[Len(vec)]
        r == add(Id("UpdateId", popped), 1, overflow_checks)
    IN  /\ self_updates' = SubSeq(vec, 1, Len(vec) - 1)
        /\ IF r.tag = "Panic"
           THEN main_pc' = "panicked" /\ UNCHANGED <<param, yielded>>
           ELSE /\ param' = Some(r.value.v)
                /\ yielded' = Append(yielded, popped)
                /\ main_pc' = "idle"

\* PollingUpdater::new(token), in either kind of build: no offset, no
\* thread, no channel, no updates.
InitPoll ==
    /\ param = GetUpdates_new
    /\ thread_param = None
    /\ thread_pc = "unspawned"
    /\ main_pc = "idle"
    /\ control = <<>>
    /\ response = <<>>
    /\ self_updates = <<>>
    /\ in_flight = None
    /\ yielded = <<>>
    /\ received = <<>>
    /\ dropped = FALSE
    /\ issued = <<>>
    /\ lhs = <<>>
    /\ rhs = 0
    /\ op = ""
    /\ overflow_checks \in BOOLEAN
    /\ out = <<>>
    /\ IdleResult
    /\ IdleUpdate
    /\ IdleCodec
    /\ IdleEcho
    /\ IdleMethod

\* next() with updates left of the last batch.
NextBuffered ==
    /\ main_pc = "idle"
    /\ ~dropped
    /\ self_updates # <<>>
    /\ PopAndReturn(self_updates)
    /\ UNCHANGED <<thread_param, thread_pc, control, response, in_flight, received,
                   dropped, issued, idVars, resultVars, updateVars, codecVars,
                   echoVars, methodVars>>

\* next() with no updates left and no thread yet: the channels are made, the
\* thread is spawned with a clone of param, and next() waits for a response.
NextSpawn ==
    /\ main_pc = "idle"
    /\ ~dropped
    /\ self_updates = <<>>
    /\ thread_pc = "unspawned"
    /\ thread_param' = param
    /\ thread_pc' = "try_recv"
    /\ main_pc' = "recv"
    /\ UNCHANGED <<param, control, response, self_updates, in_flight, yielded,
                   received, dropped, issued, idVars, resultVars, updateVars,
                   codecVars, echoVars, methodVars>>

\* next() with no updates left and the thread running: it waits for a
\* response.
NextWait ==
    /\ main_pc = "idle"
    /\ ~dropped
    /\ self_updates = <<>>
    /\ thread_pc # "unspawned"
    /\ main_pc' = "recv"
    /\ UNCHANGED <<param, thread_param, thread_pc, control, response, self_updates,
                   in_flight, yielded, received, dropped, issued, idVars,
                   resultVars, updateVars, codecVars, echoVars, methodVars>>

\* One turn of the loop of next(): rx.recv() takes the oldest response; an
\* error response panics in unwrap; an empty batch goes round the loop; any
\* other batch is reversed into self.updates, and next() pops and returns.
Recv ==
    /\ main_pc = "recv"
    /\ response # <<>>
    /\ response' = Tail(response)
    /\ IF is_err(Head(response))
       THEN /\ main_pc' = "panicked"
            /\ UNCHANGED <<param, self_updates, yielded, received>>
       ELSE IF Head(response).value = <<>>
       THEN UNCHANGED <<main_pc, param, self_updates, yielded, received>>
       ELSE /\ received' = received \o Head(response).value
            /\ PopAndReturn(reverse(Head(response).value))
    /\ UNCHANGED <<thread_param, thread_pc, control, in_flight, dropped, issued,
                   idVars, resultVars, updateVars, codecVars, echoVars, methodVars>>

\* The PollingUpdater is dropped, between two calls of next() or when a
\* panic of next() unwinds: Stop is sent if there is a control sender, and
\* the receiver of the responses goes with the struct.
DropUpdater ==
    /\ main_pc \in {"idle", "panicked"}
    /\ ~dropped
    /\ dropped' = TRUE
    /\ control' = IF thread_pc # "unspawned" THEN drop_send(control) ELSE control
    /\ response' = <<>>
    /\ UNCHANGED <<param, thread_param, thread_pc, main_pc, self_updates, in_flight,
                   yielded, received, issued, idVars, resultVars, updateVars,
                   codecVars, echoVars, methodVars>>

\* The polling thread at the head of its loop:
\* while control_signal.try_recv() != Ok(Signal::Stop)
TryRecv ==
    /\ thread_pc = "try_recv"
    /\ IF control # <<>> /\ Head(control) = "Stop"
       THEN control' = Tail(control) /\ thread_pc' = "exited"
       ELSE Len(issued) < MaxPolls /\ thread_pc' = "post" /\ UNCHANGED control
    /\ UNCHANGED <<param, thread_param, main_pc, response, self_updates, in_flight,
                   yielded, received, dropped, issued, idVars, resultVars,
                   updateVars, codecVars, echoVars, methodVars>>

\* client.post(url.clone()).json(&param).send(): the request carries the
\* thread's param, the clone made when the thread was spawned, which nothing
\* writes afterwards; some response comes back.
Post ==
    /\ thread_pc = "post"
    /\ issued' = Append(issued, thread_param)
    /\ \E r \in Responses(thread_param) : in_flight' = Some(r)
    /\ thread_pc' = "send"
    /\ UNCHANGED <<param, thread_param, main_pc, control, response, self_updates,
                   yielded, received, dropped, idVars, resultVars, updateVars,
                   codecVars, echoVars, methodVars>>

\* tx_updates.send(response): the response joins the queue; with the
\* receiver gone the send fails and its error is not looked at.
Send ==
    /\ thread_pc = "send"
    /\ response' = IF dropped THEN response ELSE Append(response, unwrap(in_flight))
    /\ in_flight' = None
    /\ thread_pc' = "try_recv"
    /\ UNCHANGED <<param, thread_param, main_pc, control, self_updates, yielded,
                   received, dropped, issued, idVars, resultVars, updateVars,
                   codecVars, echoVars, methodVars>>

\* The steps of the polling thread.
Thread == TryRecv \/ Post \/ Send

NextPoll == NextBuffered \/ NextSpawn \/ NextWait \/ Recv \/ DropUpdater \/ Thread

SpecPoll == InitPoll /\ [][NextPoll]_vars

\* The polling thread is scheduled, and every request it makes comes back.
SpecPollFair ==
    InitPoll /\ [][NextPoll]_vars /\ WF_vars(TryRecv) /\ WF_vars(Post) /\ WF_vars(Send)

(***************************************************************************)
(* Claims about into_result, checked under SpecResult.                     *)
(***************************************************************************)

\* The envelope has been converted.
Converted == is_some(outcome)

\* The converted envelope's Result.
res == unwrap(outcome)

\* C1: into_result returns Ok(r) exactly when the envelope has ok = true and a
\* present result r, the Ok value being that r unchanged whatever the other
\* fields carry; every other combination of fields gives Err, and ok = false
\* never gives Ok, even with a result present.
C1_OkExactlyWhenOkAndResult ==
    Converted =>
        /\ is_ok(res) <=> (envelope.ok /\ is_some(envelope.result))
        /\ is_ok(res) => res.value = unwrap(envelope.result)
        /\ ~is_ok(res) => is_err(res)
        /\ ~envelope.ok => is_err(res)

\* C1 witnesses: an Ok out of an envelope that also carries a description, an
\* error code and parameters.
C1_Witness ==
    /\ Converted
    /\ is_ok(res)
    /\ is_some(envelope.description)
    /\ is_some(envelope.error_code)
    /\ is_some(envelope.parameters)
    /\ res.value = MaxPayload

\* C2: for ok = false with error_code = c and description = d present,
\* into_result returns Err(ApiError) whose error_code is c, whose description
\* is d and whose parameters are the envelope's parameters.
C2_FailureCarriesFields ==
    (Converted /\ ~envelope.ok /\ is_some(envelope.error_code) /\ is_some(envelope.description)) =>
        res = Err(ApiError(unwrap(envelope.error_code), unwrap(envelope.description),
                           envelope.parameters))

\* C2 witness: the failure of the repository's test (401, Unauthorized), with
\* a retry_after hint carried through.
C2_Witness ==
    /\ Converted
    /\ ~envelope.ok
    /\ envelope.error_code = Some(401)
    /\ envelope.description = Some("Unauthorized")
    /\ is_some(envelope.parameters)
    /\ is_err(res)
    /\ res.error.parameters = Some([migrate_to_chat_id |-> None, retry_after |-> Some(5)])

\* C3: for ok = true without a result, into_result returns Err(ApiError) with
\* error_code 0, the fixed missing-result description and no parameters,
\* whatever description, error_code or parameters the envelope carried.
C3_MissingResultError ==
    (Converted /\ envelope.ok /\ is_none(envelope.result)) =>
        res = Err(ApiError(0, MissingResultDescription, None))

\* C3 witness: a success without a result that carries all three other fields.
C3_Witness ==
    /\ Converted
    /\ envelope.ok
    /\ is_none(envelope.result)
    /\ envelope.description = Some("Unauthorized")
    /\ envelope.error_code = Some(401)
    /\ is_some(envelope.parameters)
    /\ is_err(res)

\* C4 as stated: for ok = false the ApiError's code is error_code, or 0 with a
\* description noting the missing code when error_code is absent, and its
\* description is the envelope's description, or the empty string when the
\* description is absent.
C4_Original ==
    (Converted /\ ~envelope.ok) =>
        /\ is_err(res)
        /\ res.error.error_code = unwrap_or(envelope.error_code, 0)
        /\ is_none(envelope.error_code) => res.error.description = MissingErrCodeDescription
        /\ res.error.description = unwrap_or(envelope.description, "")

\* C4 amended: for ok = false the ApiError's code is error_code, or 0 when
\* error_code is absent; its description is the envelope's description (the
\* empty string when absent) only when error_code is present, and is the fixed
\* note about the missing code when error_code is absent, whatever description
\* the envelope carried.
C4_FailureDefaults ==
    (Converted /\ ~envelope.ok) =>
        /\ is_err(res)
        /\ res.error.error_code = unwrap_or(envelope.error_code, 0)
        /\ is_some(envelope.error_code) =>
               res.error.description = unwrap_or(envelope.description, "")
        /\ is_none(envelope.error_code) =>
               res.error.description = MissingErrCodeDescription

\* C4 witness: a failure without error_code whose own description is dropped.
C4_Witness ==
    /\ Converted
    /\ ~envelope.ok
    /\ is_none(envelope.error_code)
    /\ envelope.description = Some("Unauthorized")
    /\ is_err(res)
    /\ res.error.description = MissingErrCodeDescription

\* C5 as stated: an ApiError with error_code 0 comes only from a success
\* envelope without a result; every failure envelope gives the upstream code.
C5_Original ==
    (Converted /\ is_err(res) /\ res.error.error_code = 0) =>
        (envelope.ok /\ is_none(envelope.result))

\* C5 amended: an ApiError with error_code 0 comes from a success envelope
\* without a result, or from a failure envelope whose error_code is absent or
\* is itself 0; a failure envelope that carries an error_code gives exactly
\* that code.
C5_ZeroCodeSources ==
    /\ (Converted /\ is_err(res) /\ res.error.error_code = 0) =>
           \/ envelope.ok /\ is_none(envelope.result)
           \/ ~envelope.ok /\ is_none(envelope.error_code)
           \/ ~envelope.ok /\ envelope.error_code = Some(0)
    /\ (Converted /\ ~envelope.ok /\ is_some(envelope.error_code)) =>
           (is_err(res) /\ res.error.error_code = unwrap(envelope.error_code))

\* C5 witness: a failure envelope without error_code yields code 0.
C5_Witness ==
    /\ Converted
    /\ ~envelope.ok
    /\ is_none(envelope.error_code)
    /\ is_err(res)
    /\ res.error.error_code = 0

(***************************************************************************)
(* Claims about the Update decoder, checked under SpecUpdate.              *)
(***************************************************************************)

\* The update object has been decoded.
Decoded == is_some(update)

\* The Result of the decode.
upd == unwrap(update)

\* The positions of the fields of the update object whose key is in S.
FieldsIn(S) == {i \in DOMAIN wire : wire[i].key \in S}

\* The object has a single update_id, an integer.
HasUpdateId ==
    /\ Cardinality(FieldsIn({"update_id"})) = 1
    /\ \A i \in FieldsIn({"update_id"}) : wire[i].val.t = "int"

\* The wire value of the object's update_id.
WireUpdateId == wire[CHOOSE i \in FieldsIn({"update_id"}) : TRUE].val.v

\* The content fields of the claim and the variant each names; a payload struct
\* with required fields on the left, a placeholder struct on the right.
C6_StructFields ==
    {<<"message", "Message">>, <<"edited_message", "EditedMessage">>,
     <<"channel_post", "ChannelPost">>, <<"edited_channel_post", "EditedChannelPost">>,
     <<"inline_query", "InlineQuery">>, <<"chosen_inline_result", "ChosenInlineResult">>,
     <<"callback_query", "CallbackQuery">>}

C6_PlaceholderFields ==
    {<<"shipping_query", "ShippingQuery">>, <<"pre_checkout_query", "PreCheckoutQuery">>,
     <<"poll", "Poll">>, <<"poll_answer", "PollAnswer">>,
     <<"my_chat_member", "MyChatMember">>, <<"chat_member", "ChatMember">>}

\* The names a content field is looked up by: those of the claims' content
\* fields, and unknown, which the enum's unit variant adds.
ContentFieldNames ==
    {p[1] : p \in C6_StructFields \cup C6_PlaceholderFields} \cup {"unknown"}

\* C6: an update object (with its update_id) that contains exactly one known
\* content field, holding a payload of the expected shape, decodes to the
\* UpdateContent variant of the same name holding that payload.
C6_ContentDispatch ==
    (Decoded /\ HasUpdateId /\ Cardinality(FieldsIn(ContentFieldNames)) = 1) =>
        \A i \in FieldsIn(ContentFieldNames) :
            /\ \A p \in C6_StructFields :
                   (wire[i].key = p[1] /\ wire[i].val.t = "obj" /\ wire[i].val.v >= 1) =>
                       /\ is_ok(upd)
                       /\ upd.value.content = Some([variant |-> p[2], payload |-> wire[i].val.v])
            /\ \A p \in C6_PlaceholderFields :
                   (wire[i].key = p[1] /\ wire[i].val.t = "obj") =>
                       /\ is_ok(upd)
                       /\ upd.value.content = Some([variant |-> p[2], payload |-> 0])

\* C6 witness: the my_chat_member update of the repository's test, decoded to
\* the MyChatMember variant, its content field written before update_id.
C6_Witness ==
    /\ Decoded
    /\ Len(wire) = 3
    /\ wire[1].key = "foo"
    /\ wire[2].key = "my_chat_member"
    /\ wire[3].key = "update_id"
    /\ is_ok(upd)
    /\ upd.value.content = Some([variant |-> "MyChatMember", payload |-> 0])

\* C7 as stated: an update object with an update_id and none of the known
\* content fields decodes to an Update whose content is UpdateContent::Unknown.
C7_Original ==
    (Decoded /\ HasUpdateId /\ FieldsIn(ContentFieldNames) = {}) =>
        /\ is_ok(upd)
        /\ upd.value.content = Some([variant |-> "Unknown", payload |-> 0])

\* C7 amended: an update object with an update_id and none of the known
\* content fields decodes successfully to an Update whose content is absent
\* (None); content.unwrap_or_default() then gives UpdateContent::Unknown, the
\* value of UpdateContent::default().
C7_NoContentIsNone ==
    (Decoded /\ HasUpdateId /\ FieldsIn(ContentFieldNames) = {}) =>
        /\ is_ok(upd)
        /\ upd.value.content = None
        /\ unwrap_or_default(upd.value.content) = [variant |-> "Unknown", payload |-> 0]
        /\ unwrap_or_default(upd.value.content) = UpdateContent_default

\* C7 witness: an object that holds only update_id and a field no variant
\* names has been decoded, and its content is absent.
C7_Witness ==
    /\ Decoded
    /\ Len(wire) = 2
    /\ wire[1].key = "update_id"
    /\ wire[2].key = "foo"
    /\ is_ok(upd)
    /\ upd.value.content = None

\* The payload of field i does not decode against the shape its name expects.
MalformedPayload(i) ==
    \/ \E p \in C6_StructFields :
           wire[i].key = p[1] /\ ~(wire[i].val.t = "obj" /\ wire[i].val.v >= 1)
    \/ \E p \in C6_PlaceholderFields :
           wire[i].key = p[1] /\ wire[i].val.t # "obj"

\* C8 as stated: when an update object contains a known content field whose
\* payload does not decode against the expected shape, decoding the whole
\* Update fails; it never succeeds with content Unknown or absent.
C8_Original ==
    (Decoded /\ \E i \in DOMAIN wire : MalformedPayload(i)) => is_err(upd)

\* C9 as stated: an update object whose content field is chat_join_request
\* decodes to the dedicated ChatJoinRequest variant, not to Unknown or to
\* absent content.
C9_Original ==
    (Decoded /\ HasUpdateId /\ FieldsIn(ContentFieldNames) = {}
             /\ FieldsIn({"chat_join_request"}) # {}) =>
        /\ is_ok(upd)
        /\ is_some(upd.value.content)
        /\ unwrap(upd.value.content).variant = "ChatJoinRequest"

\* C10: every update object with an update_id decodes to an Update whose
\* update_id is the wire's, whatever content field is present, decodable or
\* not, and wherever update_id stands in the object; and no decoded Update
\* has another identifier than its object's.
C10_UpdateIdIndependent ==
    /\ (Decoded /\ HasUpdateId) =>
           (is_ok(upd) /\ upd.value.update_id = WireUpdateId)
    /\ (Decoded /\ is_ok(upd)) =>
           (HasUpdateId /\ upd.value.update_id = WireUpdateId)

\* C10 witness: update_id written last, after two content fields, is decoded
\* beside the content chosen.
C10_Witness ==
    /\ Decoded
    /\ Len(wire) = 3
    /\ wire[1].key = "message"
    /\ wire[2].key = "poll"
    /\ wire[3] = [key |-> "update_id", val |-> JInt(MaxUpdateId)]
    /\ is_ok(upd)
    /\ upd.value.update_id = MaxUpdateId
    /\ is_some(upd.value.content)

\* The fields of the update object w in the opposite order.
Reversed(w) == [i \in DOMAIN w |-> w[Len(w) + 1 - i]]

\* C24 as stated: when an update object carries more than one known content
\* field, the variant it decodes to does not depend on the order of the
\* fields: the object with the same fields in the opposite order decodes to
\* the same Update. The content fields are taken with payloads of the
\* expected shape.
C24_Original ==
    (/\ Decoded
     /\ HasUpdateId
     /\ \A i, k \in DOMAIN wire : wire[i].key = wire[k].key => i = k
     /\ \A i \in DOMAIN wire : ~MalformedPayload(i)
     /\ Cardinality(FieldsIn(ContentFieldNames \ {"unknown"})) >= 2) =>
        from_str_Update(Reversed(wire)) = upd

\* C25 as stated: a missing required field is always a decode error and is
\* never replaced by a default or by Unknown: neither an update object
\* without update_id decodes, nor one whose only content field holds an
\* object without the fields its payload requires.
C25_Original ==
    (/\ Decoded
     /\ \/ FieldsIn({"update_id"}) = {}
        \/ /\ Cardinality(FieldsIn(ContentFieldNames)) = 1
           /\ \E i \in FieldsIn(StructVariants) : wire[i].val = JObj(0)) =>
        is_err(upd)

(***************************************************************************)
(* Claims about the encoders and decoders, checked under SpecCodec.        *)
(***************************************************************************)

\* A value of type t has been encoded and the encoding decoded again.
RoundTripped(t) == ty = t /\ is_some(value) /\ is_some(json) /\ is_some(decoded)

\* A JSON value that no encoder wrote has been decoded as type t.
DecodedInput(t) == ty = t /\ is_none(value) /\ is_some(decoded)

\* The discriminator string of the JSON value decoded as type t: the string
\* itself for an enum of unit variants, the string of the field type for an
\* enum tagged by it.
HasDiscriminator(t, j) ==
    \/ t \in UnitEnums /\ j.t = "string"
    \/ /\ t \in TaggedEnums
       /\ j.t = "object"
       /\ Cardinality(Positions(j.v, "type")) = 1
       /\ ValueAt(j.v, "type").t = "string"

Discriminator(t, j) == IF t \in UnitEnums THEN j.v ELSE ValueAt(j.v, "type").v

\* C11: for ChatType, MessageEntityKind, ChatMemberStatus, ParseMode and
\* InputMedia, a value whose discriminator string is not one of the enum's
\* variant names decodes to the enum's Unknown variant, whatever other fields
\* it has, and is never a decode error.
C11_UnknownDiscriminator ==
    (ty \in UnitEnums \cup TaggedEnums /\ is_some(json) /\ is_some(decoded)
       /\ HasDiscriminator(ty, unwrap(json))
       /\ Discriminator(ty, unwrap(json)) \notin KnownNames(ty))
    => unwrap(decoded) = Ok(Unit("Unknown"))

\* C11 witness: the object of the repository's test, with an unlisted type
\* and a field no variant has, has been decoded as ChatType to Unknown.
C11_Witness ==
    /\ DecodedInput("ChatType")
    /\ unwrap(json) = JObject(<<Entry("type", JString("Papika")),
                                Entry("Cocona", JString("Mimi"))>>)
    /\ unwrap(decoded) = Ok(Unit("Unknown"))

\* The entries of the button object j name no action of a button.
NoKnownAction(j) ==
    /\ j.t = "object"
    /\ Cardinality(Positions(j.v, "text")) = 1
    /\ ValueAt(j.v, "text").t = "string"
    /\ \A i \in DOMAIN j.v :
          j.v[i].key \notin (KnownNames("InlineKeyboardButtonPressed") \ {"unknown"})

\* C12 as stated: a button object with text and an action field that is not
\* one of the known kinds, or with no action field, decodes with pressed =
\* Unknown, and an InlineKeyboardMarkup that holds such a button decodes.
C12_Original ==
    /\ (DecodedInput("InlineKeyboardButton") /\ NoKnownAction(unwrap(json)))
         => /\ is_ok(unwrap(decoded))
            /\ unwrap(decoded).value.pressed = Unit("Unknown")
    /\ (DecodedInput("InlineKeyboardMarkup")
          /\ unwrap(json).t = "object"
          /\ Cardinality(Positions(unwrap(json).v, "inline_keyboard")) = 1
          /\ LET k == ValueAt(unwrap(json).v, "inline_keyboard")
             IN  /\ k.t = "array"
                 /\ \A r \in DOMAIN k.v :
                       /\ k.v[r].t = "array"
                       /\ \A c \in DOMAIN k.v[r].v : NoKnownAction(k.v[r].v[c]))
         => is_ok(unwrap(decoded))

\* C13 as stated: for every variant value v other than Unknown of ChatType,
\* MessageEntityKind, ChatMemberStatus, ParseMode and InputMedia, InputMedia
\* with any FileToSend as its media, decode(encode(v)) = v.
C13_Original ==
    (ty \in UnitEnums \cup TaggedEnums /\ is_some(value) /\ is_some(decoded)
       /\ unwrap(value).tag # "Unknown")
    => unwrap(decoded) = Ok(unwrap(value))

\* C14: for every identifier n, decode(encode(ChatTarget::Id(ChatId(n)))) is
\* ChatTarget::Id(ChatId(n)) and never a Username; for every string s, digits
\* only included, decode(encode(ChatTarget::Username(s))) is
\* ChatTarget::Username(s) and never an Id.
C14_ChatTargetRoundTrip ==
    RoundTripped("ChatTarget") =>
        /\ unwrap(decoded) = Ok(unwrap(value))
        /\ unwrap(decoded).value.tag = unwrap(value).tag

\* C14 witness: a username made only of digits, the digits of an identifier
\* of the model, comes back as a Username.
C14_Witness ==
    /\ RoundTripped("ChatTarget")
    /\ unwrap(value) = [tag |-> "Username", v |-> ToString(MaxChatId)]
    /\ unwrap(json) = [t |-> "string", v |-> ToString(MaxChatId)]
    /\ unwrap(decoded) = Ok([tag |-> "Username", v |-> ToString(MaxChatId)])

C16_FileToSendEncoding ==
    (ty = "FileToSend" /\ is_some(value) /\ is_some(json)) =>
        LET x == unwrap(value)
            j == unwrap(json)
        IN  /\ x.tag \in {"FileId", "Url"} => j = [t |-> "string", v |-> x.v]
            /\ \A name \in AttachNames :
                   x = [tag |-> "InputFile", v |-> InputFile_new(name)] =>
                       j = [t |-> "string", v |-> "attach://" \o name]

\* C16 witness: the InputFile of the repository's test is encoded.
C16_Witness ==
    /\ ty = "FileToSend"
    /\ is_some(value)
    /\ unwrap(value).tag = "InputFile"
    /\ json = Some([t |-> "string", v |-> "attach://cocona.webp"])

\* C17 as stated: encoding a FileToSend and decoding the result returns the
\* value that was encoded, for the FileId, Url and InputFile variants alike.
C17_Original ==
    RoundTripped("FileToSend") => unwrap(decoded) = Ok(unwrap(value))

\* C18 as stated: for ReplyMarkup and InputMessageContent, decoding the
\* encoding of a value gives the variant the value was built with.
C18_Original ==
    (ty \in UntaggedEnums /\ is_some(value) /\ is_some(decoded))
    => /\ is_ok(unwrap(decoded))
       /\ unwrap(decoded).value.tag = unwrap(value).tag

\* The field that holds the keyboard of a markup.
KeyboardField(t) == IF t = "InlineKeyboardMarkup" THEN "inline_keyboard" ELSE "keyboard"

\* The JSON value is an object without the keyboard of markup t, whose other
\* fields, if any, are booleans as the markup declares them.
LacksKeyboard(t, j) ==
    /\ j.t = "object"
    /\ Positions(j.v, KeyboardField(t)) = {}
    /\ \A k \in {"resize_keyboard", "one_time_keyboard", "selective"} :
           /\ Cardinality(Positions(j.v, k)) <= 1
           /\ Positions(j.v, k) # {} => ValueAt(j.v, k).t = "bool"

\* C23: an object that lacks the keyboard array decodes, as an
\* InlineKeyboardMarkup and as a ReplyKeyboardMarkup, to a markup whose
\* keyboard is the empty list; it is no decode error.
C23_EmptyKeyboard ==
    \A t \in {"InlineKeyboardMarkup", "ReplyKeyboardMarkup"} :
        (DecodedInput(t) /\ LacksKeyboard(t, unwrap(json))) =>
            /\ is_ok(unwrap(decoded))
            /\ unwrap(decoded).value[KeyboardField(t)] = <<>>

\* C23 witness: an object that holds resize_keyboard alone has been decoded
\* as a ReplyKeyboardMarkup, to a markup with that field and no rows.
C23_Witness ==
    /\ DecodedInput("ReplyKeyboardMarkup")
    /\ json = Some(JObject(<<Entry("resize_keyboard", JBool(TRUE))>>))
    /\ is_ok(unwrap(decoded))
    /\ unwrap(decoded).value.keyboard = <<>>
    /\ unwrap(decoded).value.resize_keyboard = Some(TRUE)

(***************************************************************************)
(* Claims about the identifier arithmetic, checked under SpecId.           *)
(***************************************************************************)

\* The operation has been carried out.
Operated == is_some(out)

\* The identifier the operation started from: lhs itself, or, for an
\* assignment that went through, what out kept of it.
Before ==
    IF op \in {"add_assign", "sub_assign"} /\ unwrap(out).tag = "Returned"
    THEN unwrap(out).value
    ELSE lhs

\* What the operation made: the identifier returned, the identifier now in
\* place for an assignment, or the panic.
After ==
    IF unwrap(out).tag = "Panic" THEN Panic
    ELSE IF op \in {"add_assign", "sub_assign"} THEN Returned(lhs)
    ELSE unwrap(out)

\* The integer the claim names: the original value plus, respectively
\* minus, n.
Exact == IF op \in {"add", "add_ref", "add_assign"} THEN Before.v + rhs ELSE Before.v - rhs

C28_Original ==
    (Operated /\ rhs > 0) =>
        /\ After.tag = "Returned"
        /\ IF op \in {"add", "add_ref", "add_assign"}
           THEN lt(Before, After.value)
           ELSE lt(After.value, Before)

(***************************************************************************)
(* Claims about the long-polling loop, checked under SpecEcho.             *)
(***************************************************************************)

\* A request is made in this step.
Requesting == pc = "request" /\ pc' # "request"

\* C20: the offset a getUpdates request carries is the update_id of the last
\* update of the batch processed before it plus 1; after an empty batch it
\* is the offset the request before carried; and until an update has been
\* seen no request carries an offset.
C20_OffsetFollowsBatch ==
    /\ [](~seen => (request = None /\ get_update = None))
    /\ [][Requesting =>
            request' = IF updates # <<>>
                       THEN Some(updates[Len(updates)] + 1)
                       ELSE request]_vars

\* C20 witness: after a batch that ended with the largest update_id the
\* second request has been made with that update_id plus 1, and it has been
\* answered by an empty batch.
C20_Witness ==
    /\ pc = "request"
    /\ requests = 2
    /\ updates = <<>>
    /\ seen
    /\ request = Some(MaxUpdateId + 1)
    /\ get_update = request

(***************************************************************************)
(* Claims about the method table and the responses, checked under          *)
(* SpecMethod.                                                             *)
(***************************************************************************)

\* C21: the url of every request type, for every token, is
\* "https://api.telegram.org/bot" + token + "/" + NAME with the NAME the
\* table gives the type, and no two request types have the same NAME.
C21_UrlOfMethod ==
    /\ is_some(built) =>
           unwrap(built) = "https://api.telegram.org/bot" \o token \o "/" \o NAME(method)
    /\ \A m1, m2 \in Methods : NAME(m1) = NAME(m2) => m1 = m2
    /\ \A m1, m2 \in Methods : url(m1, token) = url(m2, token) => m1 = m2

\* C21 witness: the url of ApproveJoinRequest, whose NAME is not its type's
\* name, has been built.
C21_Witness ==
    /\ method = "ApproveJoinRequest"
    /\ token = "42:Cocona"
    /\ built = Some("https://api.telegram.org/bot42:Cocona/approveChatJoinRequest")

\* The methods that edit a message.
EditMethods ==
    {"EditMessageText", "EditMessageCaption", "EditMessageMedia", "EditMessageReplyMarkup"}

\* The body is a success envelope whose result is r.
Success(r) == body = Some(JObject(<<Entry("ok", JBool(TRUE)), Entry("result", r)>>))

\* The response has been decoded.
Parsed == is_some(parsed)

\* C22 as stated: for each of the four methods that edit a message, a
\* success envelope decodes through the method's response type both when its
\* result is an edited Message object and when it is the boolean true.
C22_Original ==
    \A r \in ResultInputs :
        (/\ Parsed
         /\ method \in EditMethods
         /\ Success(r)
         /\ (r = JBool(TRUE) \/ is_ok(deserialize_Message(r)))) =>
            is_ok(unwrap(parsed))

\* A chat object of a type ChatType does not know, with an id and with no
\* photo or a well-formed one.
UnknownChat(j) ==
    /\ j.t = "object"
    /\ Cardinality(Positions(j.v, "type")) = 1
    /\ ValueAt(j.v, "type").t = "string"
    /\ ValueAt(j.v, "type").v \notin KnownNames("ChatType")
    /\ Cardinality(Positions(j.v, "id")) = 1
    /\ ValueAt(j.v, "id").t = "number"
    /\ Positions(j.v, "photo") # {} => ValueAt(j.v, "photo") = PhotoInput

\* The Chat c has the id and the photo of the chat object j, and the kind
\* Unknown.
IsUnknownChatOf(c, j) ==
    /\ c.kind.tag = "Unknown"
    /\ c.id = ValueAt(j.v, "id").v
    /\ c.photo = IF Positions(j.v, "photo") = {} THEN None
                 ELSE Some([tag |-> "ChatPhoto", small_file_id |-> "Cocona",
                            big_file_id |-> "Papika"])

\* C29: a Chat object whose type is unrecognized decodes to a Chat of kind
\* ChatType::Unknown with the id and the photo of the object, and a Message
\* that embeds such a chat decodes with its other fields intact.
C29_UnknownIsLocal ==
    \A r \in ResultInputs :
        /\ (Parsed /\ Item(method) = "Chat" /\ Success(r) /\ UnknownChat(r)) =>
               /\ is_ok(unwrap(parsed))
               /\ is_some(unwrap(parsed).value.result)
               /\ IsUnknownChatOf(unwrap(unwrap(parsed).value.result), r)
        /\ (/\ Parsed
            /\ Item(method) = "Message"
            /\ Success(r)
            /\ r \in MessageInputs
            /\ Positions(r.v, "chat") # {}
            /\ UnknownChat(ValueAt(r.v, "chat"))) =>
               /\ is_ok(unwrap(parsed))
               /\ is_some(unwrap(parsed).value.result)
               /\ LET m == unwrap(unwrap(parsed).value.result)
                  IN  /\ m.message_id = ValueAt(r.v, "message_id").v
                      /\ m.date = ValueAt(r.v, "date").v
                      /\ m.text = IF Positions(r.v, "text") = {} THEN None
                                  ELSE Some(ValueAt(r.v, "text").v)
                      /\ IsUnknownChatOf(m.chat, ValueAt(r.v, "chat"))
                      /\ Positions(r.v, "sender_chat") # {} =>
                             /\ is_some(m.sender_chat)
                             /\ IsUnknownChatOf(unwrap(m.sender_chat),
                                                ValueAt(r.v, "sender_chat"))

\* C29 witness: a message with a text, whose chat and sender chat are of the
\* type forum and carry a photo, has been decoded as the response of
\* sendMessage.
C29_Witness ==
    /\ Parsed
    /\ method = "SendMessage"
    /\ is_ok(unwrap(parsed))
    /\ \E r \in MessageInputs :
           /\ Success(r)
           /\ Positions(r.v, "text") # {}
           /\ UnknownChat(ValueAt(r.v, "chat"))
           /\ Positions(ValueAt(r.v, "chat").v, "photo") # {}
    /\ unwrap(unwrap(parsed).value.result).chat.kind.tag = "Unknown"
    /\ is_some(unwrap(unwrap(parsed).value.result).chat.photo)

(***************************************************************************)
(* Claims about PollingUpdater, checked under SpecPoll and SpecPollFair.   *)
(***************************************************************************)

\* The polling thread has been spawned.
Started == thread_pc # "unspawned"

\* The polling thread makes a request in this step.
Posting == thread_pc = "post" /\ thread_pc' = "send"

\* C26 as stated: once next() has yielded an update with identifier u, every
\* getUpdates request the polling thread makes afterwards carries an offset
\* of at least u + 1.
C26_Original ==
    [][Posting =>
          \A i \in DOMAIN yielded :
              /\ is_some(issued'[Len(issued')])
              /\ unwrap(issued'[Len(issued')]) >= yielded[i] + 1]_vars

\* C27: after a PollingUpdater whose polling thread has been started is
\* dropped, a Stop signal has been delivered to the thread; when the thread
\* comes to the head of its loop after that it leaves the loop instead of
\* making another request, although the receiver of the responses is gone;
\* and it does leave the loop eventually.
C27_StopsAfterDrop ==
    /\ []((dropped /\ Started) => (thread_pc = "exited" \/ control = <<"Stop">>))
    /\ [][(dropped /\ thread_pc = "try_recv" /\ thread_pc' # "try_recv") =>
              (thread_pc' = "exited" /\ issued' = issued)]_vars
    /\ [][thread_pc = "exited" => (thread_pc' = "exited" /\ issued' = issued)]_vars
    /\ (dropped /\ Started) ~> (thread_pc = "exited")

\* C27 witness: the updater has yielded an update and has been dropped, and
\* the thread has left its loop after two requests, the signal taken.
C27_Witness ==
    /\ dropped
    /\ thread_pc = "exited"
    /\ control = <<>>
    /\ Len(issued) = 2
    /\ yielded # <<>>

\* The updates self.updates still holds, in the order they are to be
\* yielded in.
Remaining == [i \in DOMAIN self_updates |-> self_updates[Len(self_updates) + 1 - i]]

\* next() takes a response from the queue in this step.
Consuming == main_pc = "recv" /\ Len(response') < Len(response)

\* C30: the updates next() has yielded, followed by those it still holds,
\* are the updates of the non-empty batches it has received, in their order
\* and each once; after a yield the stored offset is the identifier of the
\* update yielded last plus 1; next() takes a response from the queue only
\* when it holds no update; an empty batch yields nothing and next() goes on
\* waiting; and when next() returns it has yielded an update.
C30_NextYieldsBatches ==
    /\ [](received = yielded \o Remaining)
    /\ [](yielded # <<>> => param = Some(yielded[Len(yielded)] + 1))
    /\ [][Consuming => self_updates = <<>>]_vars
    /\ [][(Consuming /\ Head(response) = Ok(<<>>)) =>
              (main_pc' = "recv" /\ yielded' = yielded /\ self_updates' = <<>>)]_vars
    /\ [][(main_pc = "recv" /\ main_pc' = "idle") =>
              (/\ Len(yielded') = Len(yielded) + 1
               /\ yielded'[Len(yielded')] = Head(response).value[1])]_vars

\* C30 witness: the batch 1, 2 has been received twice; its updates have been
\* yielded in that order the first time, the first of them the second
\* time, the other is still held, and the offset is 2.
C30_Witness ==
    /\ main_pc = "idle"
    /\ ~dropped
    /\ received = <<1, 2, 1, 2>>
    /\ yielded = <<1, 2, 1>>
    /\ self_updates = <<2>>
    /\ param = Some(2)

====
